---------------------------- MODULE Spec2Model ----------------------------
(***************************************************************************)
(* Palmeiras calendar sync: the retrieval -> processing -> reconciliation   *)
(* pipeline of src/src/retrieval/verdao.js, processing.js (the version that *)
(* exports getMatchUniqueKey, src/unnamed/part_007), src/src/calendar.js    *)
(* and the orchestrator sync() (src/src/config.js).                         *)
(*                                                                         *)
(* Text is a sequence of characters (one-character strings); the          *)
(* non-ASCII letters that occur in the texts are written "~a", "~o", "~e". *)
(* Instants are integers counted in hours.                                  *)
(***************************************************************************)
EXTENDS Integers, Sequences, FiniteSets, TLC

(***************************************************************************)
(* Bounds of the model                                                      *)
(***************************************************************************)
\* longest raw match list given to processMatches
MaxLen == 3
\* instants range over 0..MaxDate
MaxDate == 2
\* fetchHTML is called with retries in 0..MaxRetries
MaxRetries == 3
\* sync() is started at most MaxRuns times
MaxRuns == 2
\* the clock runs from 0 to MaxClock, in hours
MaxClock == 3
\* the process starts at most MaxTasks runs
MaxTasks == 2

(***************************************************************************)
(* Program constants                                                        *)
(***************************************************************************)
\* calendar.js:21  endDateTime = start + 2 * 60 * 60 * 1000 ms, in hours
EventDurationHours == 2

(***************************************************************************)
(* Text: String.prototype.toLowerCase / trim / replace as used by normalize *)
(***************************************************************************)
UpperCase == <<"A","B","C","D","E","F","G","H","I","J","K","L","M",
               "N","O","P","Q","R","S","T","U","V","W","X","Y","Z","~A","~O">>
LowerCase == <<"a","b","c","d","e","f","g","h","i","j","k","l","m",
               "n","o","p","q","r","s","t","u","v","w","x","y","z","~a","~o">>
Digits == {"0","1","2","3","4","5","6","7","8","9"}
AsciiLower == {LowerCase[i] : i \in 1..26}
\* the characters /\s/ matches
WhiteSpace == {" ", "\t"}

\* one character of str.toLowerCase()
toLowerCaseChar(c) ==
    IF \E i \in 1..Len(UpperCase) : UpperCase[i] = c
    THEN LowerCase[CHOOSE i \in 1..Len(UpperCase) : UpperCase[i] = c]
    ELSE c

toLowerCase(str) == [i \in 1..Len(str) |-> toLowerCaseChar(str[i])]

RECURSIVE trimStart(_)
trimStart(str) ==
    IF str # <<>> /\ Head(str) \in WhiteSpace THEN trimStart(Tail(str)) ELSE str

RECURSIVE trimEnd(_)
trimEnd(str) ==
    IF str # <<>> /\ str[Len(str)] \in WhiteSpace
    THEN trimEnd(SubSeq(str, 1, Len(str) - 1))
    ELSE str

trim(str) == trimEnd(trimStart(str))

\* str.replace(/\s+/g, '_'): every maximal run of white space becomes one '_'
RECURSIVE replaceWhiteSpaceRuns(_)
replaceWhiteSpaceRuns(str) ==
    IF str = <<>> THEN <<>>
    ELSE IF Head(str) \in WhiteSpace
         THEN <<"_">> \o replaceWhiteSpaceRuns(trimStart(str))
         ELSE <<Head(str)>> \o replaceWhiteSpaceRuns(Tail(str))

\* str.replace(/[^a-z0-9_]/g, '')
stripNonKeyChars(str) ==
    SelectSeq(str, LAMBDA c : c \in AsciiLower \cup Digits \cup {"_"})

\* the runs of white space replaced before the text is trimmed
normalizeUntrimmed(str) ==
    stripNonKeyChars(trim(replaceWhiteSpaceRuns(toLowerCase(str))))

\* part_007:18  normalize = str => str.toLowerCase().trim().replace(..).replace(..)
normalize(str) == stripNonKeyChars(replaceWhiteSpaceRuns(trim(toLowerCase(str))))

KeyPrefix == <<"p","a","l","m","e","i","r","a","s","_","v","s","_">>

\* a key that also holds the date, as the fixtureId of config.js:409 did
getMatchUniqueKeyWithDate(match) ==
    KeyPrefix \o normalize(match.opponent) \o <<"_">> \o normalize(match.competition)
    \o <<"_", ToString(match.date)>>

\* part_007:16-24
getMatchUniqueKey(match) ==
    KeyPrefix \o normalize(match.opponent) \o <<"_">> \o normalize(match.competition)


(***************************************************************************)
(* processMatches (part_007:31-65)                                          *)
(***************************************************************************)
\* the filter with >= in place of >
futureMatchesNotStrict(matches, now) ==
    SelectSeq(matches, LAMBDA match : match.date >= now)

\* part_007:35  matches.filter(match => match.date > now)
futureMatches(matches, now) == SelectSeq(matches, LAMBDA match : match.date > now)

\* A JavaScript Map as the sequence of its entries in insertion order.
\* Map.prototype.get: the index of the entry of key, 0 when there is none
mapIndex(map, key) ==
    IF \E i \in 1..Len(map) : map[i].key = key
    THEN CHOOSE i \in 1..Len(map) : map[i].key = key
    ELSE 0

\* Map.prototype.set: a new key is appended, a known key keeps its place
mapSet(map, key, value) ==
    IF mapIndex(map, key) = 0
    THEN Append(map, [key |-> key, value |-> value])
    ELSE [map EXCEPT ![mapIndex(map, key)].value = value]

\* the loop body keeping the first match of a key (processing.js:25-31 does so)
dedupStepKeepFirst(matchMap, match) ==
    IF mapIndex(matchMap, getMatchUniqueKey(match)) = 0
    THEN mapSet(matchMap, getMatchUniqueKey(match), match)
    ELSE matchMap

\* part_007:41-48  one iteration of the loop over futureMatches
dedupStep(matchMap, match) ==
    LET key == getMatchUniqueKey(match)
        i   == mapIndex(matchMap, key)
    IN  IF i = 0 \/ match.date < matchMap[i].value.date
        THEN mapSet(matchMap, key, match)
        ELSE matchMap

RECURSIVE dedupLoop(_, _)
dedupLoop(matchMap, matches) ==
    IF matches = <<>> THEN matchMap
    ELSE dedupLoop(dedupStep(matchMap, Head(matches)), Tail(matches))

\* the values in the reverse of the insertion order
mapValuesReversed(map) == [i \in 1..Len(map) |-> map[Len(map) + 1 - i].value]

\* part_007:50  Array.from(matchMap.values())
mapValues(map) == [i \in 1..Len(map) |-> map[i].value]

\* the comparator with its operands exchanged
compareByDateDescending(a, b) == b.date - a.date

\* part_007:53  (a, b) => a.date.getTime() - b.date.getTime()
compareByDate(a, b) == a.date - b.date

\* Array.prototype.sort with that comparator: a stable sort, an element goes
\* before the ones the comparator says are greater
RECURSIVE insertByDate(_, _)
insertByDate(sorted, match) ==
    IF sorted = <<>> THEN <<match>>
    ELSE IF compareByDate(sorted[Len(sorted)], match) > 0
         THEN Append(insertByDate(SubSeq(sorted, 1, Len(sorted) - 1), match),
                     sorted[Len(sorted)])
         ELSE Append(sorted, match)

RECURSIVE sortByDate(_)
sortByDate(matches) ==
    IF matches = <<>> THEN <<>>
    ELSE insertByDate(sortByDate(SubSeq(matches, 1, Len(matches) - 1)),
                      matches[Len(matches)])

\* processing.js:15-46  the earlier processMatches: the first match of each
\* date and opponent is kept, whatever its competition
processMatchesDatedKey(matches, now) ==
    LET future == futureMatches(matches, now)
        first  == SelectSeq([k \in 1..Len(future) |-> k],
                            LAMBDA k : ~ \E j \in 1..(k - 1) :
                                           /\ future[j].date = future[k].date
                                           /\ future[j].opponent = future[k].opponent)
    IN  sortByDate([i \in 1..Len(first) |-> future[first[i]]])

\* part_007:31-65 with now = new Date() passed in
processMatches(matches, now) ==
    sortByDate(mapValues(dedupLoop(<<>>, futureMatches(matches, now))))

(***************************************************************************)
(* matchToCalendarEvent (calendar.js:18-66)                                 *)
(***************************************************************************)
\* calendar.js:23-26  the template string, a literal piece per element
eventSummary(match) ==
    <<IF match.isHome THEN "[home]" ELSE "[away]", " Palmeiras vs ">>
    \o match.opponent
    \o (IF match.broadcast # <<>> THEN <<" [tv] ">> \o match.broadcast ELSE <<>>)

\* the payload with the instant in its fixtureId (as config.js:409 builds it)
matchToCalendarEventDatedId(match) ==
    [ summary  |-> eventSummary(match),
      description |-> [competition |-> match.competition,
                       location |-> IF match.location # <<>> THEN match.location
                                    ELSE <<"TBD">>,
                       broadcast |-> match.broadcast,
                       source |-> match.source,
                       matchDate |-> match.date,
                       matchId |-> getMatchUniqueKey(match)],
      location |-> match.location,
      start    |-> match.date,
      end      |-> match.date + EventDurationHours,
      reminders |-> <<60, 15>>,
      extendedProperties |->
          [private |-> [palmeirasSync |-> "true",
                        fixtureId |-> getMatchUniqueKey(match)
                             \o <<"_", ToString(match.date)>>]] ]

matchToCalendarEvent(match) ==
    [ summary  |-> eventSummary(match),
      description |-> [competition |-> match.competition,
                       location |-> IF match.location # <<>> THEN match.location
                                    ELSE <<"TBD">>,
                       broadcast |-> match.broadcast,
                       source |-> match.source,
                       matchDate |-> match.date,
                       matchId |-> getMatchUniqueKey(match)],
      location |-> match.location,
      start    |-> match.date,
      end      |-> match.date + EventDurationHours,
      reminders |-> <<60, 15>>,
      extendedProperties |->
          [private |-> [palmeirasSync |-> "true",
                        fixtureId |-> getMatchUniqueKey(match)]] ]

(***************************************************************************)
(* fetchHTML (verdao.js:48-81)                                              *)
(***************************************************************************)
\* verdao.js:48  retries = 3
DefaultRetries == 3

NoHtml == [malformed |-> FALSE, tables |-> <<>>, section |-> <<>>]

\* what one fetch(url) does: it rejects (threw), or resolves to a response
\* with a status whose text() rejects (textThrew) or gives the body
NetworkError == [threw |-> TRUE, status |-> 0, textThrew |-> FALSE, body |-> NoHtml]
ErrorStatus(status) ==
    [threw |-> FALSE, status |-> status, textThrew |-> FALSE, body |-> NoHtml]
OkBroken == [threw |-> FALSE, status |-> 200, textThrew |-> TRUE, body |-> NoHtml]
OkWith(html) == [threw |-> FALSE, status |-> 200, textThrew |-> FALSE, body |-> html]

Responses(htmls) ==
    {NetworkError, OkBroken, ErrorStatus(404), ErrorStatus(410), ErrorStatus(500)}
    \cup { OkWith(html) : html \in htmls }

\* Response.ok
responseOk(response) == response.status >= 200 /\ response.status <= 299

\* the loop body of sync.js:29-50, which has no branch for 404 and 410
fetchIterationWithoutNotFound(response) ==
    IF response.threw THEN "next"
    ELSE IF responseOk(response)
         THEN IF response.textThrew THEN "next" ELSE "returnHtml"
         ELSE "next"

\* verdao.js:50-69  the try block of one iteration: what the iteration does
fetchIteration(response) ==
    IF response.threw THEN "next"
    ELSE IF responseOk(response)
         THEN IF response.textThrew THEN "next" ELSE "returnHtml"
         ELSE IF response.status = 404 \/ response.status = 410
              THEN "returnNull"
              ELSE "next"

\* the loop test with <= in place of <
loopContinuesOneMore(i, retries) == i <= retries

\* verdao.js:49  i < retries
loopContinues(i, retries) == i < retries

\* verdao.js:71-75  the delay before the next attempt, 0 for none
retryDelay(i, retries) == IF i < retries - 1 THEN 1000 * (i + 1) ELSE 0

\* verdao.js:80  the message of the error thrown after the loop
fetchErrorMessage(url, retries) ==
    <<"Failed to fetch HTML after ", ToString(retries), " attempts">>

FetchPending == [kind |-> "pending", body |-> NoHtml, message |-> <<>>]
FetchedHtml(html) == [kind |-> "html", body |-> html, message |-> <<>>]
FetchedNull == [kind |-> "null", body |-> NoHtml, message |-> <<>>]
FetchThrew(url, retries) ==
    [kind |-> "error", body |-> NoHtml, message |-> fetchErrorMessage(url, retries)]

(***************************************************************************)
(* Inputs: the texts and matches the checks range over                      *)
(***************************************************************************)
Santos      == <<"S","a","n","t","o","s">>
SantosUpper == <<"S","A","N","T","O","S">>
SaoPaulo    == <<"S","~a","o"," ","P","a","u","l","o">>
Opponents   == {Santos, SantosUpper, SaoPaulo}

\* verdao.js:26, 29  the competition labels of two of the pages
Paulista      == <<"P","a","u","l","i","s","t","a"," ","2","0","2","6">>
ProximosJogos == <<"P","r","~o","x","i","m","o","s"," ","J","o","g","o","s">>
Competitions  == {Paulista, ProximosJogos}

\* verdao.js:26, 29  the page a competition label is scraped from
pageUrl(competition) == IF competition = Paulista THEN "/paulista-2026/" ELSE "/"

Allianz == <<"A","l","l","i","a","n","z">>
Globo   == <<"G","l","o","b","o">>

Dates == 0..MaxDate
Nows  == 0..MaxDate

\* the fixtures of the raw lists: two spellings of one opponent, one opponent
\* on two pages, and a second opponent
ProcFixtures ==
    { <<Santos, Paulista>>, <<SantosUpper, Paulista>>,
      <<Santos, ProximosJogos>>, <<SaoPaulo, Paulista>> }

\* matches as a page yields them, the fields processMatches does not read fixed
ProcMatches ==
    { [date |-> d, opponent |-> f[1], location |-> <<>>, broadcast |-> <<>>,
       competition |-> f[2], isHome |-> FALSE, source |-> pageUrl(f[2])] :
      d \in Dates, f \in ProcFixtures }

\* matches with every field varying (types.js:7-15)
KeyMatches ==
    [date : Dates, opponent : {Santos, SaoPaulo}, location : {<<>>, Allianz},
     broadcast : {<<>>, Globo}, competition : Competitions,
     isHome : BOOLEAN, source : {"/paulista-2026/", "/"}]

SeqsUpTo(S, n) == UNION { [1..k -> S] : k \in 0..n }

\* the text of the header cells of a schedule table
ScheduleHead == <<"D","a","t","a"," ","A","d","v","e","r","s","~a","r","i","o"," ","L","o","c","a","l"," ","T","V">>

\* a page as cheerio sees it: its tables, each with the text of its header
\* cells and its rows, a row being the texts of its td cells
\* (verdao.js:213-223), and the rows of the section of the home page
\* (verdao.js:266-270). A row carries as date what parseDateTime returns for
\* its text
ScheduleHtml(rows) ==
    [malformed |-> FALSE,
     tables |-> <<[head |-> ScheduleHead, rows |-> rows]>>,
     section |-> <<>>]

OneRowHtml ==
    ScheduleHtml(<<[cells |-> <<<<"1","1","/","1"," ","-"," ","1","5","h","0","0">>, Santos, Allianz, Globo>>,
                    date |-> 1]>>)
FetchHtmls == {NoHtml, OneRowHtml}
FetchUrls  == {"/paulista-2026/", "/"}

VARIABLES
    procPc,      \* "off", "input", then "processed" or "events"
    rawMatches,  \* the argument of processMatches
    procNow,     \* the instant new Date() gives inside processMatches
    processed,   \* the value processMatches returned
    events       \* the payloads built by matchToCalendarEvent

procVars == <<procPc, rawMatches, procNow, processed, events>>

VARIABLES
    fetchPc,      \* "off", "loop", "returned", "threw"
    fetchUrl,     \* the url argument of fetchHTML
    fetchRetries, \* the retries argument of fetchHTML
    fetchI,       \* the loop variable i
    fetchLog,     \* what each fetch(url) of this call did, in order
    fetchWaits,   \* the delays waited between attempts, in ms
    fetchResult   \* what the call returned or threw

fetchVars == <<fetchPc, fetchUrl, fetchRetries, fetchI, fetchLog, fetchWaits,
               fetchResult>>

VARIABLES
    clock,            \* what Date.now() and new Date() give, in hours
    credentials,      \* GOOGLE_CREDENTIALS: "missing", "malformed" or "valid"
    calendar,         \* the events of the remote calendar, [id, resource]
    nextEventId,      \* the id the calendar gives the next inserted event
    statusFile,       \* the content of STATUS_FILE
    runs              \* how many times sync() was started

envVars == <<clock, credentials, calendar, nextEventId, statusFile, runs>>

VARIABLES
    pc,               \* where the run of sync() is: "idle", "fetch", "process",
                      \* "client", "list", "reconcile", "finish", "save"
    runId,            \* sync(): runId
    startTime,        \* sync(): startTime
    pageIdx,          \* fetchPalmeirasFixtures: the page of the for loop
    attempt,          \* fetchHTML: i
    allMatches,       \* fetchPalmeirasFixtures: allMatches
    processedMatches, \* sync(): processedMatches
    listNow,          \* getExistingEvents: now
    existingEvents,   \* syncMatchesToCalendar: existingEvents
    matchIdx,         \* syncMatchesToCalendar: the match of the for loop
    counts,           \* syncMatchesToCalendar: created, updated, skipped, errors
    result,           \* sync(): result
    outcome,          \* how sync() ended: "none", "returned", "threw"
    err               \* sync(): the message of the err of the catch block

runVars == <<pc, runId, startTime, pageIdx, attempt, allMatches,
             processedMatches, listNow, existingEvents, matchIdx, counts,
             result, outcome, err>>

\* history variables: they record what the run did and change nothing
VARIABLES
    ops,              \* the calendar writes of this run, in order
    pageOutcome,      \* how each page of this run ended
    failedAt,         \* the step whose error ended this run, or "none"
    calAtStart,       \* the calendar when this run started
    prevMatches,      \* processedMatches of the run before
    prevOps,          \* ops of the run before
    calls,            \* the calls of calendar.js this run made, in order
    saved,            \* what this run gave saveRunStatus, and whether the
                      \* file was written
    requested         \* the pages this run sent a request for, in order

histVars == <<ops, pageOutcome, failedAt, calAtStart, prevMatches, prevOps,
              calls, saved, requested>>

syncVars == <<envVars, runVars, histVars>>

VARIABLES
    datePc,           \* "off", "input", "created" or "parsed"
    dateIn,           \* the arguments of the call
    dateNow,          \* parseDateTime: now
    machineOffset,    \* the timezone of the machine, in minutes from UTC
    hourCycle,        \* how the runtime writes the hours of hour12: false
    dateOut           \* what the call returned

dateVars == <<datePc, dateIn, dateNow, machineOffset, hourCycle, dateOut>>

VARIABLES
    tasks,            \* the runs of the process: where each is and its locals
    remoteEvents,     \* the events of the remote calendar, [id, resource]
    remoteNextId,     \* the id the calendar gives the next inserted event
    statusSlot,       \* the status file
    finishOrder       \* the runs that have returned or thrown, in order

serverVars == <<tasks, remoteEvents, remoteNextId, statusSlot, finishOrder>>

VARIABLES
    callPc,           \* a function called on its own: "input", then "returned"
    callIn,           \* its arguments
    callOut           \* what it returned

callVars == <<callPc, callIn, callOut>>

vars == <<procVars, fetchVars, syncVars, dateVars, serverVars, callVars>>

\* sync(): result, every optional field present
NoResult ==
    [runId |-> 0, status |-> "none", startTime |-> 0, endTime |-> 0,
     duration |-> 0, fixturesFound |-> 0, fixturesCreated |-> 0,
     fixturesUpdated |-> 0, fixturesSkipped |-> 0, errors |-> <<>>,
     error |-> <<>>]

\* part_002:41-48  what getLatestRunStatus answers without a status file
NoRuns == [NoResult EXCEPT !.status = "no_runs"]

NoCounts == [created |-> 0, updated |-> 0, skipped |-> 0, errors |-> <<>>]

RunOff ==
    /\ pc = "idle"
    /\ runId = 0
    /\ startTime = 0
    /\ pageIdx = 1
    /\ attempt = 0
    /\ allMatches = <<>>
    /\ processedMatches = <<>>
    /\ listNow = 0
    /\ existingEvents = <<>>
    /\ matchIdx = 1
    /\ counts = NoCounts
    /\ result = NoResult
    /\ outcome = "none"
    /\ err = <<>>
    /\ calls = <<>>
    /\ saved = <<>>
    /\ requested = <<>>
    /\ ops = <<>>
    /\ pageOutcome = <<>>
    /\ failedAt = "none"
    /\ prevMatches = <<>>
    /\ prevOps = <<>>

SyncOff ==
    /\ RunOff
    /\ clock = 0
    /\ credentials = "valid"
    /\ calendar = {}
    /\ calAtStart = {}
    /\ nextEventId = 1
    /\ statusFile = NoRuns
    /\ runs = 0

ProcOff ==
    /\ procPc = "off"
    /\ rawMatches = <<>>
    /\ procNow = 0
    /\ processed = <<>>
    /\ events = <<>>

ServerOff ==
    /\ tasks = <<>>
    /\ remoteEvents = {}
    /\ remoteNextId = 1
    /\ statusSlot = [state |-> "absent", content |-> NoResult, size |-> 0]
    /\ finishOrder = <<>>

DateOff ==
    /\ datePc = "off"
    /\ dateIn = [op |-> "off", year |-> 0, month |-> 0, day |-> 0, hour |-> 0,
                 minute |-> 0, text |-> <<>>, competition |-> <<>>]
    /\ dateNow = 0
    /\ machineOffset = 0
    /\ hourCycle = "h23"
    /\ dateOut = 0

CallOff ==
    /\ callPc = "off"
    /\ callIn = <<>>
    /\ callOut = <<>>

FetchOff ==
    /\ fetchPc = "off"
    /\ fetchUrl = "/"
    /\ fetchRetries = 0
    /\ fetchI = 0
    /\ fetchLog = <<>>
    /\ fetchWaits = <<>>
    /\ fetchResult = FetchPending

(***************************************************************************)
(* SpecProc: processMatches applied to every raw list within the bounds     *)
(***************************************************************************)
ProcInit ==
    /\ procPc = "input"
    /\ rawMatches \in SeqsUpTo(ProcMatches, MaxLen)
    /\ procNow \in Nows
    /\ processed = <<>>
    /\ events = <<>>
    /\ FetchOff
    /\ SyncOff
    /\ DateOff
    /\ ServerOff
    /\ CallOff

ProcessMatches ==
    /\ procPc = "input"
    /\ processed' = processMatches(rawMatches, procNow)
    /\ procPc' = "processed"
    /\ UNCHANGED <<rawMatches, procNow, events>>
    /\ UNCHANGED <<fetchVars, syncVars, dateVars, serverVars, callVars>>

\* processMatches called again with the list it returned, at the same now
ProcessOutput ==
    /\ procPc = "processed"
    /\ processed' = processMatches(processed, procNow)
    /\ procPc' = "reprocessed"
    /\ UNCHANGED <<rawMatches, procNow, events>>
    /\ UNCHANGED <<fetchVars, syncVars, dateVars, serverVars, callVars>>

ProcNext == ProcessMatches \/ ProcessOutput

SpecProc == ProcInit /\ [][ProcNext]_vars

(***************************************************************************)
(* SpecKey: matchToCalendarEvent applied to every pair of matches           *)
(***************************************************************************)
KeyInit ==
    /\ procPc = "input"
    /\ rawMatches \in [1..2 -> KeyMatches]
    /\ procNow = 0
    /\ processed = <<>>
    /\ events = <<>>
    /\ FetchOff
    /\ SyncOff
    /\ DateOff
    /\ ServerOff
    /\ CallOff

KeyEvents ==
    /\ procPc = "input"
    /\ events' = [i \in 1..Len(rawMatches) |-> matchToCalendarEvent(rawMatches[i])]
    /\ procPc' = "events"
    /\ UNCHANGED <<rawMatches, procNow, processed>>
    /\ UNCHANGED <<fetchVars, syncVars, dateVars, serverVars, callVars>>

KeyNext == KeyEvents

SpecKey == KeyInit /\ [][KeyNext]_vars

(***************************************************************************)
(* SpecFetch: one call fetchHTML(url, retries), a step per fetch(url)       *)
(***************************************************************************)
FetchInit ==
    /\ fetchPc = "loop"
    /\ fetchUrl \in FetchUrls
    /\ fetchRetries \in 0..MaxRetries
    /\ fetchI = 0
    /\ fetchLog = <<>>
    /\ fetchWaits = <<>>
    /\ fetchResult = FetchPending
    /\ ProcOff
    /\ SyncOff
    /\ DateOff
    /\ ServerOff
    /\ CallOff

\* verdao.js:49-76  one iteration: the request, then return, or wait and i++
FetchAttempt ==
    /\ fetchPc = "loop"
    /\ loopContinues(fetchI, fetchRetries)
    /\ \E response \in Responses(FetchHtmls) :
          /\ fetchLog' = Append(fetchLog, response)
          /\ IF fetchIteration(response) = "returnHtml"
             THEN /\ fetchResult' = FetchedHtml(response.body)
                  /\ fetchPc' = "returned"
                  /\ UNCHANGED <<fetchI, fetchWaits>>
             ELSE IF fetchIteration(response) = "returnNull"
             THEN /\ fetchResult' = FetchedNull
                  /\ fetchPc' = "returned"
                  /\ UNCHANGED <<fetchI, fetchWaits>>
             ELSE /\ fetchWaits' = IF retryDelay(fetchI, fetchRetries) > 0
                                   THEN Append(fetchWaits,
                                               retryDelay(fetchI, fetchRetries))
                                   ELSE fetchWaits
                  /\ fetchI' = fetchI + 1
                  /\ UNCHANGED <<fetchPc, fetchResult>>
    /\ UNCHANGED <<fetchUrl, fetchRetries>>
    /\ UNCHANGED <<procVars, syncVars, dateVars, serverVars, callVars>>

\* verdao.js:80  the loop is over: throw
FetchExhausted ==
    /\ fetchPc = "loop"
    /\ ~ loopContinues(fetchI, fetchRetries)
    /\ fetchResult' = FetchThrew(fetchUrl, fetchRetries)
    /\ fetchPc' = "threw"
    /\ UNCHANGED <<fetchUrl, fetchRetries, fetchI, fetchLog, fetchWaits>>
    /\ UNCHANGED <<procVars, syncVars, dateVars, serverVars, callVars>>

FetchNext == FetchAttempt \/ FetchExhausted

SpecFetch == FetchInit /\ [][FetchNext]_vars

(***************************************************************************)
(* Dates: Date.UTC, toLocaleString in America/Sao_Paulo, parseInt,         *)
(* createDateInSaoPaulo and parseDateTime (verdao.js:90-168).              *)
(* An instant of this part is a number of minutes since 1970-01-01T00:00Z. *)
(***************************************************************************)
DigitChars == <<"0","1","2","3","4","5","6","7","8","9">>

isDigit(c) == \E d \in 1..10 : DigitChars[d] = c

digitValue(c) == (CHOOSE d \in 1..10 : DigitChars[d] = c) - 1

\* String(n) of a number 0..9999, without padding
RECURSIVE numberToString(_)
numberToString(n) ==
    IF n < 10 THEN <<DigitChars[n + 1]>>
    ELSE Append(numberToString(n \div 10), DigitChars[(n % 10) + 1])

\* the option '2-digit' of toLocaleString: two digits, a zero in front of one
twoDigit(n) == <<DigitChars[((n \div 10) % 10) + 1], DigitChars[(n % 10) + 1]>>

\* parseInt(str): the number the leading digits of str spell (the texts given
\* to it here start with a digit)
RECURSIVE parseInt(_)
parseInt(str) ==
    IF str = <<>> \/ ~ isDigit(str[Len(str)])
    THEN IF str = <<>> THEN 0 ELSE parseInt(SubSeq(str, 1, Len(str) - 1))
    ELSE 10 * parseInt(SubSeq(str, 1, Len(str) - 1)) + digitValue(str[Len(str)])

isLeapYear(y) == (y % 4 = 0 /\ y % 100 # 0) \/ y % 400 = 0

daysInMonth(y, m) ==
    IF m = 2 THEN (IF isLeapYear(y) THEN 29 ELSE 28)
    ELSE IF m \in {4, 6, 9, 11} THEN 30 ELSE 31

RECURSIVE daysBeforeMonth(_, _)
daysBeforeMonth(y, m) ==
    IF m = 1 THEN 0 ELSE daysBeforeMonth(y, m - 1) + daysInMonth(y, m - 1)

\* the days from 1970-01-01 to the first of January of y
daysBeforeYear(y) ==
    365 * (y - 1970) + ((y - 1969) \div 4) - ((y - 1901) \div 100)
        + ((y - 1601) \div 400)

\* Date.UTC(year, monthIndex, day, hour, minute) in minutes; a month, a day or
\* an hour past its range runs over into the next year, month or day
DateUTC(year, monthIndex, day, hour, minute) ==
    LET ym == year + (monthIndex \div 12)
        mn == (monthIndex % 12) + 1
    IN  ((daysBeforeYear(ym) + daysBeforeMonth(ym, mn) + day - 1) * 24 + hour)
            * 60 + minute

CalendarYears == 1970..2100

\* the civil fields of instant t in a timezone `offset` minutes from UTC
civilFields(t, offset) ==
    LET local == t + offset
        dn    == local \div 1440
        y     == CHOOSE yy \in CalendarYears :
                    daysBeforeYear(yy) <= dn /\ dn < daysBeforeYear(yy + 1)
        dy    == dn - daysBeforeYear(y)
        m     == CHOOSE mm \in 1..12 :
                    /\ daysBeforeMonth(y, mm) <= dy
                    /\ dy < daysBeforeMonth(y, mm) + daysInMonth(y, mm)
    IN  [year |-> y, month |-> m, day |-> dy - daysBeforeMonth(y, m) + 1,
         hour |-> (local % 1440) \div 60, minute |-> local % 60]

\* America/Sao_Paulo: UTC-3 all year since daylight saving ended in 2019
SaoPauloOffset == 0 - 180

\* hour12: false with the locale en-US: a runtime that resolves it to the hour
\* cycle h23 writes midnight "00", one that resolves it to h24 writes "24"
hourField(hour, cycle) == IF cycle = "h24" /\ hour = 0 THEN 24 ELSE hour

\* verdao.js:108-122  utcDate.toLocaleString('en-US', {timeZone:
\* 'America/Sao_Paulo', ...}) as "MM/DD/YYYY, HH:MM", split at ', ', '/', ':'
toLocaleStringParts(t, cycle) ==
    LET c == civilFields(t, SaoPauloOffset)
    IN  [saoPauloMonth  |-> twoDigit(c.month),
         saoPauloDay    |-> twoDigit(c.day),
         saoPauloYear   |-> numberToString(c.year),
         saoPauloHour   |-> twoDigit(hourField(c.hour, cycle)),
         saoPauloMinute |-> twoDigit(c.minute)]

\* verdao.js:90-140  createDateInSaoPaulo
createDateInSaoPaulo(year, month, day, hour, minute) ==
    LET utcDate       == DateUTC(year, month - 1, day, hour, minute)
        p             == toLocaleStringParts(utcDate, hourCycle)
        saoPauloAsUTC == DateUTC(parseInt(p.saoPauloYear),
                                 parseInt(p.saoPauloMonth) - 1,
                                 parseInt(p.saoPauloDay),
                                 parseInt(p.saoPauloHour),
                                 parseInt(p.saoPauloMinute))
        offsetMs      == utcDate - saoPauloAsUTC
        targetUTC     == DateUTC(year, month - 1, day, hour, minute)
    IN  targetUTC + offsetMs

\* the class of the en dash (written "~-" here) and the hyphen
Dashes == {"~-", "-"}

\* /(\d{1,2})\/(\d{1,2})\s*[~--]\s*(\d{1,2})h(\d{2})/ : where a match may
\* start (s), the lengths of the three groups of one or two digits (a, b, c)
\* and of the two runs of white space (v, w)
allDigits(str, from, n) ==
    /\ from + n - 1 <= Len(str)
    /\ \A k \in from..(from + n - 1) : isDigit(str[k])

allWhiteSpace(str, from, n) ==
    /\ from + n - 1 <= Len(str)
    /\ \A k \in from..(from + n - 1) : str[k] \in WhiteSpace

charAt(str, k) == IF k >= 1 /\ k <= Len(str) THEN str[k] ELSE ""

dateTimeMatches(str, separators) ==
    UNION { UNION { UNION { UNION { UNION {
        { <<s, a, b, v, w, c>> :
            c \in { x \in 1..2 :
                      /\ allDigits(str, s + a + 2 + b + v + w, x)
                      /\ charAt(str, s + a + 2 + b + v + w + x) = "h"
                      /\ allDigits(str, s + a + 3 + b + v + w + x, 2) } } :
            w \in { x \in 0..Len(str) :
                      allWhiteSpace(str, s + a + 2 + b + v, x) } } :
            v \in { x \in 0..Len(str) :
                      /\ allWhiteSpace(str, s + a + 1 + b, x)
                      /\ charAt(str, s + a + 1 + b + x) \in separators } } :
            b \in { x \in 1..2 : allDigits(str, s + a + 1, x) } } :
            a \in { x \in 1..2 :
                      /\ allDigits(str, s, x)
                      /\ charAt(str, s + x) = "/" } } :
            s \in 1..Len(str) }

\* the match the regular expression engine finds: the leftmost start, every
\* quantifier as long as it can be, the earlier quantifier first
preferredMatch(t, u) ==
    \/ t[1] < u[1]
    \/ t[1] = u[1] /\ t[2] > u[2]
    \/ t[1] = u[1] /\ t[2] = u[2] /\ t[3] > u[3]
    \/ t[1] = u[1] /\ t[2] = u[2] /\ t[3] = u[3] /\ t[4] > u[4]
    \/ t[1] = u[1] /\ t[2] = u[2] /\ t[3] = u[3] /\ t[4] = u[4] /\ t[5] > u[5]
    \/ /\ t[1] = u[1] /\ t[2] = u[2] /\ t[3] = u[3] /\ t[4] = u[4]
       /\ t[5] = u[5] /\ t[6] >= u[6]

\* str.match(...): the four groups, or matched = FALSE for null
firstDateTimeMatch(str, separators) ==
    IF dateTimeMatches(str, separators) = {}
    THEN [matched |-> FALSE, day |-> <<>>, month |-> <<>>, hour |-> <<>>,
          minute |-> <<>>]
    ELSE LET t == CHOOSE x \in dateTimeMatches(str, separators) :
                     \A u \in dateTimeMatches(str, separators) :
                         preferredMatch(x, u)
             s == t[1]
             h == s + t[2] + 2 + t[3] + t[4] + t[5]
         IN  [matched |-> TRUE,
              day     |-> SubSeq(str, s, s + t[2] - 1),
              month   |-> SubSeq(str, s + t[2] + 1, s + t[2] + t[3]),
              hour    |-> SubSeq(str, h, h + t[6] - 1),
              minute  |-> SubSeq(str, h + t[6] + 1, h + t[6] + 2)]

\* verdao.js:143  dateTimeStr.match(/..\s*[~--]\s*../)
dateTimeMatch(str) == firstDateTimeMatch(str, Dashes)

\* verdao.js:272  text.match(/..\s*[|]\s*../)
sectionDateMatch(str) == firstDateTimeMatch(str, {"|"})

\* \w of a regular expression (the labels hold no underscore)
isWordChar(c) ==
    \/ isDigit(c)
    \/ \E k \in 1..26 : c = UpperCase[k] \/ c = LowerCase[k]

\* verdao.js:154-157  competition.match(/\b(20\d{2})\b/): the year of the
\* first match, 0 when there is none
yearInLabel(competition) ==
    LET starts == { k \in 1..Len(competition) :
                      /\ k + 3 <= Len(competition)
                      /\ competition[k] = "2"
                      /\ competition[k + 1] = "0"
                      /\ isDigit(competition[k + 2])
                      /\ isDigit(competition[k + 3])
                      /\ ~ isWordChar(charAt(competition, k - 1))
                      /\ ~ isWordChar(charAt(competition, k + 4)) }
    IN  IF starts = {} THEN 0
        ELSE LET k == CHOOSE x \in starts : \A y \in starts : x <= y
             IN  parseInt(SubSeq(competition, k, k + 3))

\* now.getFullYear() and now.getMonth(): the fields of the machine's timezone
getFullYear(t) == civilFields(t, machineOffset).year
getMonth(t) == civilFields(t, machineOffset).month - 1

\* the rollover whatever the month
rollsOverAnyMonth(date, now) == date < now

\* verdao.js:163  date < now && now.getMonth() >= 11
rollsOver(date, now) == date < now /\ getMonth(now) >= 11

\* what parseDateTime returns for a text the expression does not match
NullDate == 0 - 1

\* verdao.js:142-168  parseDateTime with now = new Date() passed in
parseDateTime(dateTimeStr, competition, now) ==
    LET match == dateTimeMatch(dateTimeStr)
        year  == IF yearInLabel(competition) # 0 THEN yearInLabel(competition)
                 ELSE getFullYear(now)
        date  == createDateInSaoPaulo(year, parseInt(match.month),
                                      parseInt(match.day), parseInt(match.hour),
                                      parseInt(match.minute))
    IN  IF ~ match.matched THEN NullDate
        ELSE IF rollsOver(date, now)
        THEN createDateInSaoPaulo(year + 1, parseInt(match.month),
                                  parseInt(match.day), parseInt(match.hour),
                                  parseInt(match.minute))
        ELSE date

(***************************************************************************)
(* SpecDate: createDateInSaoPaulo and parseDateTime applied to wall-clock   *)
(* times and to texts of the schedule, on every runtime                     *)
(***************************************************************************)
\* the timezones of the machine: Sao Paulo, UTC, Tokyo
MachineOffsets == {SaoPauloOffset, 0, 540}

HourCycles == {"h23", "h24"}

WallYears   == {2025, 2026}
WallMonths  == {1, 2, 12}
WallDays    == {1, 10, 28, 31}
WallHours   == 0..23
WallMinutes == {0, 30}

\* "DD/M - HHhMM", the way the schedule writes day, month, hour and minute
dateTimeText(day, month, hour, minute) ==
    twoDigit(day) \o <<"/">> \o numberToString(month) \o <<" ", "-", " ">>
        \o twoDigit(hour) \o <<"h">> \o twoDigit(minute)

ToBeDefined == <<"A", " ", "d", "e", "f", "i", "n", "i", "r">>

NoLabel == <<>>

CreateInputs ==
    { [op |-> "create", year |-> y, month |-> m, day |-> d, hour |-> h,
       minute |-> mi, text |-> <<>>, competition |-> NoLabel] :
      y \in WallYears, m \in WallMonths,
      d \in { dd \in WallDays : \A yy \in WallYears, mm \in WallMonths :
                                   dd <= daysInMonth(yy, mm) },
      h \in WallHours, mi \in WallMinutes }

ParseInputs ==
    { [op |-> "parse", year |-> 0, month |-> m, day |-> d, hour |-> h,
       minute |-> mi, text |-> dateTimeText(d, m, h, mi), competition |-> c] :
      m \in {1, 12}, d \in {1, 5, 31}, h \in {3, 15, 21}, mi \in WallMinutes,
      c \in Competitions }
    \cup
    { [op |-> "parse", year |-> 0, month |-> 0, day |-> 0, hour |-> 0,
       minute |-> 0, text |-> ToBeDefined, competition |-> c] :
      c \in Competitions }

\* the instants parseDateTime is called at: 2025-11-15T12:00Z,
\* 2025-12-28T12:00Z, 2026-01-01T01:00Z, 2026-12-28T12:00Z
DateNows ==
    { DateUTC(2025, 10, 15, 12, 0), DateUTC(2025, 11, 28, 12, 0),
      DateUTC(2026, 0, 1, 1, 0), DateUTC(2026, 11, 28, 12, 0) }

DateInit ==
    /\ datePc = "input"
    /\ \/ dateIn \in CreateInputs /\ dateNow = DateUTC(2025, 11, 28, 12, 0)
       \/ dateIn \in ParseInputs /\ dateNow \in DateNows
    /\ machineOffset \in MachineOffsets
    /\ hourCycle \in HourCycles
    /\ dateOut = NullDate
    /\ ProcOff
    /\ FetchOff
    /\ SyncOff
    /\ ServerOff
    /\ CallOff

CreateDate ==
    /\ datePc = "input"
    /\ dateIn.op = "create"
    /\ dateOut' = createDateInSaoPaulo(dateIn.year, dateIn.month, dateIn.day,
                                       dateIn.hour, dateIn.minute)
    /\ datePc' = "created"
    /\ UNCHANGED <<dateIn, dateNow, machineOffset, hourCycle>>
    /\ UNCHANGED <<procVars, fetchVars, syncVars, serverVars, callVars>>

ParseDateTime ==
    /\ datePc = "input"
    /\ dateIn.op = "parse"
    /\ dateOut' = parseDateTime(dateIn.text, dateIn.competition, dateNow)
    /\ datePc' = "parsed"
    /\ UNCHANGED <<dateIn, dateNow, machineOffset, hourCycle>>
    /\ UNCHANGED <<procVars, fetchVars, syncVars, serverVars, callVars>>

DateNext == CreateDate \/ ParseDateTime

SpecDate == DateInit /\ [][DateNext]_vars

(***************************************************************************)
(* Claims about the pure functions                                          *)
(***************************************************************************)
fixtureIdOf(event) == event.extendedProperties.private.fixtureId

\* C3: two matches with equal opponent and equal competition get the same
\* key whatever their other fields are, and the fixtureId written in the
\* event payload of each is that key.
C3_KeyIgnoresDate ==
    procPc = "events" =>
        \A i, j \in 1..Len(rawMatches) :
            ( /\ rawMatches[i].opponent = rawMatches[j].opponent
              /\ rawMatches[i].competition = rawMatches[j].competition )
            => /\ getMatchUniqueKey(rawMatches[i]) = getMatchUniqueKey(rawMatches[j])
               /\ fixtureIdOf(events[i]) = fixtureIdOf(events[j])
               /\ fixtureIdOf(events[i]) = getMatchUniqueKey(rawMatches[j])

\* C3 witness: payloads built for two matches of one fixture that differ in
\* date, location, broadcast, isHome and source.
C3_Witness ==
    /\ procPc = "events"
    /\ rawMatches[1].opponent = rawMatches[2].opponent
    /\ rawMatches[1].competition = rawMatches[2].competition
    /\ rawMatches[1].date # rawMatches[2].date
    /\ rawMatches[1].location # rawMatches[2].location
    /\ rawMatches[1].broadcast # rawMatches[2].broadcast
    /\ rawMatches[1].isHome # rawMatches[2].isHome
    /\ rawMatches[1].source # rawMatches[2].source

\* the indices of the raw matches dated after now
FutureIdx == { i \in 1..Len(rawMatches) : rawMatches[i].date > procNow }

\* C4: for every key among the future raw matches the output holds exactly
\* one match with that key, it is one of the raw matches, and its date is the
\* least date of the future raw matches with that key.
C4_DedupKeepsEarliest ==
    procPc = "processed" =>
        \A i \in FutureIdx :
            LET key  == getMatchUniqueKey(rawMatches[i])
                same == { x \in FutureIdx : getMatchUniqueKey(rawMatches[x]) = key }
                kept == { j \in 1..Len(processed) :
                            getMatchUniqueKey(processed[j]) = key }
            IN  /\ Cardinality(kept) = 1
                /\ \A j \in kept :
                      /\ \E x \in same : processed[j] = rawMatches[x]
                      /\ \A x \in same : processed[j].date <= rawMatches[x].date

\* C4 witness: two future raw matches share a key, the later one comes first
\* in the input, and a match with another key stands between them.
C4_Witness ==
    /\ procPc = "processed"
    /\ Len(rawMatches) = 3
    /\ FutureIdx = {1, 2, 3}
    /\ getMatchUniqueKey(rawMatches[1]) = getMatchUniqueKey(rawMatches[3])
    /\ getMatchUniqueKey(rawMatches[1]) # getMatchUniqueKey(rawMatches[2])
    /\ rawMatches[1].date > rawMatches[3].date
    /\ Len(processed) = 2

\* C5: every match of the output is dated strictly after the now of the
\* call: a raw match dated before now or at now is not in the output.
C5_PastFilterStrict ==
    procPc = "processed" =>
        /\ \A j \in 1..Len(processed) : processed[j].date > procNow
        /\ \A i \in 1..Len(rawMatches) :
              rawMatches[i].date <= procNow =>
                 \A j \in 1..Len(processed) : processed[j] # rawMatches[i]

\* C5 witness: a call whose input holds a match before now, one at now and
\* one after now, and whose output is not empty.
C5_Witness ==
    /\ procPc = "processed"
    /\ \E i \in 1..Len(rawMatches) : rawMatches[i].date < procNow
    /\ \E i \in 1..Len(rawMatches) : rawMatches[i].date = procNow
    /\ \E i \in 1..Len(rawMatches) : rawMatches[i].date > procNow
    /\ processed # <<>>

(***************************************************************************)
(* Claims about fetchHTML, checked under SpecFetch                          *)
(***************************************************************************)
isNotFound(response) ==
    ~ response.threw /\ response.status \in {404, 410}

\* an attempt that neither returned the text nor the sentinel
isFailedAttempt(response) ==
    \/ response.threw
    \/ response.textThrew
    \/ ~ responseOk(response) /\ response.status \notin {404, 410}

isPageText(response) ==
    ~ response.threw /\ responseOk(response) /\ ~ response.textThrew

Range(seq) == { seq[k] : k \in 1..Len(seq) }

\* C8: a 404 or 410 response is the last request of the call: fetchHTML
\* returns null at once, waits for nothing more and does not throw.
C8_NotFoundIsSentinel ==
    \A k \in 1..Len(fetchLog) :
        isNotFound(fetchLog[k]) =>
            /\ k = Len(fetchLog)
            /\ fetchPc = "returned"
            /\ fetchResult = FetchedNull
            /\ Len(fetchWaits) = k - 1

C8_Witness ==
    /\ fetchRetries = DefaultRetries
    /\ Len(fetchLog) = 2
    /\ fetchLog[1] = ErrorStatus(500)
    /\ fetchLog[2] = ErrorStatus(404)
    /\ fetchResult = FetchedNull

\* the parts of C9 that do not depend on what the error carries
BoundedRetry ==
    /\ Len(fetchLog) <= fetchRetries
    /\ \A k \in 1..Len(fetchLog) :
          /\ k < Len(fetchLog) => isFailedAttempt(fetchLog[k])
          /\ isFailedAttempt(fetchLog[k]) /\ k < fetchRetries =>
                \/ k < Len(fetchLog)
                \/ fetchPc = "loop" /\ fetchI = k
          /\ isPageText(fetchLog[k]) =>
                /\ k = Len(fetchLog)
                /\ fetchPc = "returned"
                /\ fetchResult = FetchedHtml(fetchLog[k].body)
    /\ fetchPc = "threw" <=>
          /\ fetchPc # "loop"
          /\ Len(fetchLog) = fetchRetries
          /\ \A k \in 1..Len(fetchLog) : isFailedAttempt(fetchLog[k])

\* C9 as stated: at most `retries` requests, a failed attempt is followed by
\* another while attempts remain, a 2xx response ends the call with its text,
\* and the error thrown after the last failure carries the URL and the count.
C9_AsStated ==
    /\ BoundedRetry
    /\ fetchPc = "threw" =>
          /\ fetchResult.kind = "error"
          /\ ToString(fetchRetries) \in Range(fetchResult.message)
          /\ fetchUrl \in Range(fetchResult.message)

\* C9 amended: as C9, but the error thrown after the last failure carries the
\* attempt count only: its message is "Failed to fetch HTML after N attempts".
C9_BoundedRetry ==
    /\ BoundedRetry
    /\ fetchPc = "threw" =>
          /\ fetchResult.kind = "error"
          /\ fetchResult.message = <<"Failed to fetch HTML after ",
                                     ToString(fetchRetries), " attempts">>
          /\ fetchUrl \notin Range(fetchResult.message)

C9_Witness ==
    /\ fetchPc = "threw"
    /\ fetchRetries = DefaultRetries
    /\ fetchLog = <<NetworkError, ErrorStatus(500), OkBroken>>
    /\ fetchWaits = <<1000, 2000>>

(***************************************************************************)
(* The pipeline: sync() over the pages, processMatches and the calendar     *)
(***************************************************************************)
\* verdao.js:24-30  two of the five pages, which differ in url and
\* competition only: a season page and the home page
VerdaoPages ==
    << [url |-> "/paulista-2026/", competition |-> Paulista],
       [url |-> "/",               competition |-> ProximosJogos] >>

\* the kick-off instants the pages announce
RunDates == {1, 4}

\* a page cheerio or the row parsing throws on
Malformed == [malformed |-> TRUE, tables |-> <<>>, section |-> <<>>]

\* a table of one row for the kick-off at the instant date
RowHtml(date) ==
    ScheduleHtml(<<[cells |-> <<<<"1", ToString(date), "/", "1", " ", "-", " ",
                                  "1", "5", "h", "0", "0">>,
                                Santos, Allianz, <<>>>>,
                    date |-> date]>>)

\* what a page may serve with a 2xx status
PageHtmls(page) ==
    {NoHtml, Malformed} \cup { RowHtml(date) : date \in RunDates }

\* String.prototype.includes
includes(str, word) ==
    \E i \in 0..(Len(str) - Len(word)) : SubSeq(str, i + 1, i + Len(word)) = word

\* String.prototype.split with a character class: the pieces between the
\* separators, an empty piece where two separators meet or the text ends
RECURSIVE split(_, _)
split(str, separators) ==
    IF \A i \in 1..Len(str) : str[i] \notin separators THEN <<str>>
    ELSE LET i == CHOOSE k \in 1..Len(str) :
                      /\ str[k] \in separators
                      /\ \A j \in 1..(k - 1) : str[j] \notin separators
         IN  <<SubSeq(str, 1, i - 1)>>
                 \o split(SubSeq(str, i + 1, Len(str)), separators)

\* Array.prototype.join
RECURSIVE join(_, _)
join(parts, separator) ==
    IF parts = <<>> THEN <<>>
    ELSE IF Len(parts) = 1 THEN parts[1]
    ELSE parts[1] \o separator \o join(Tail(parts), separator)

\* verdao.js:173-182  channelMap in the order of Object.entries: the integer
\* keys ascending, then the other keys as written
channelMap ==
    << [key |-> <<"1">>, value |-> <<"R","e","c","o","r","d">>],
       [key |-> <<"2">>, value |-> <<"C","a","z","~e"," ","T","V">>],
       [key |-> <<"3">>, value |-> <<"T","N","T">>],
       [key |-> <<"4">>, value |-> <<"H","B","O"," ","M","a","x">>],
       [key |-> <<"G","l","o","b","o">>, value |-> <<"G","l","o","b","o">>],
       [key |-> <<"S","p","o","r","t","v">>, value |-> <<"S","p","o","r","t","v">>],
       [key |-> <<"P","r","e","m","i","e","r","e">>, value |-> <<"P","r","e","m","i","e","r","e">>],
       [key |-> <<"A","m","a","z","o","n"," ","P","r","i","m","e">>,
        value |-> <<"A","m","a","z","o","n"," ","P","r","i","m","e">>] >>

\* channelMap[part], <<>> standing for undefined
channelOfKey(part) ==
    IF \E i \in 1..Len(channelMap) : channelMap[i].key = part
    THEN channelMap[CHOOSE i \in 1..Len(channelMap) : channelMap[i].key = part].value
    ELSE <<>>

\* verdao.js:195-197  the entries whose name or key the part contains,
\* whatever the case of the letters
channelsFound(part) ==
    { i \in 1..Len(channelMap) :
        \/ includes(toLowerCase(part), toLowerCase(channelMap[i].value))
        \/ includes(toLowerCase(part), toLowerCase(channelMap[i].key)) }

\* verdao.js:188-203  what one part adds to channels
channelsOfPart(part) ==
    IF channelOfKey(part) # <<>> THEN <<channelOfKey(part)>>
    ELSE IF part # <<>> /\ allDigits(part, 1, Len(part)) THEN <<>>
    ELSE IF channelsFound(part) # {}
    THEN <<channelMap[CHOOSE i \in channelsFound(part) :
                         \A j \in channelsFound(part) : i <= j].value>>
    ELSE <<part>>

RECURSIVE channelsOf(_)
channelsOf(parts) ==
    IF parts = <<>> THEN <<>>
    ELSE channelsOfPart(Head(parts)) \o channelsOf(Tail(parts))

\* verdao.js:185  tvText.split(/[,\|]/).map(p => p.trim())
broadcastParts(tvText) ==
    LET pieces == split(tvText, {",", "|"})
    IN  [i \in 1..Len(pieces) |-> trim(pieces[i])]

\* verdao.js:170-207
parseBroadcast(tvText) ==
    IF trim(tvText) = <<>> THEN <<>>
    ELSE LET channels == channelsOf(broadcastParts(tvText))
         IN  IF Len(channels) > 0 THEN join(channels, <<",", " ">>) ELSE tvText

Barueri == <<"B","a","r","u","e","r","i">>

\* verdao.js:246-249  the keywords of the home stadiums
HomeVenues == { toLowerCase(Barueri), toLowerCase(Allianz) }

\* the test on the text as written, without toLowerCase
namesHomeStadiumAsWritten(text) ==
    \E venue \in HomeVenues : includes(text, venue)

\* verdao.js:244-249, 290-295  the text names a home stadium
namesHomeStadium(text) ==
    \E venue \in HomeVenues : includes(toLowerCase(text), venue)

RECURSIVE concat(_)
concat(texts) ==
    IF texts = <<>> THEN <<>> ELSE Head(texts) \o concat(Tail(texts))

\* verdao.js:215  $table.text().toLowerCase()
tableText(table) ==
    toLowerCase(table.head
                \o concat([k \in 1..Len(table.rows) |-> concat(table.rows[k].cells)]))

\* verdao.js:217  the table says what its columns are
isScheduleTable(table) ==
    \/ includes(tableText(table), <<"d","a","t","a">>)
    \/ includes(tableText(table), <<"h","o","r","~a","r","i","o">>)
    \/ includes(tableText(table), <<"a","d","v","e","r","s","~a","r","i","o">>)

\* verdao.js:223, 227-230  cells[k - 1] || '' of the trimmed texts
cellText(row, k) == IF k <= Len(row.cells) THEN trim(row.cells[k]) ELSE <<>>

\* verdao.js:232-236  a header row, a separator or a row without a date
skipsRow(dateTimeStr, opponent) ==
    \/ includes(toLowerCase(dateTimeStr), <<"d","a","t","a">>)
    \/ includes(toLowerCase(dateTimeStr), <<"h","o","r","~a","r","i","o">>)
    \/ includes(toLowerCase(opponent), <<"a","d","v","e","r","s","~a","r","i","o">>)
    \/ opponent = <<"x">>
    \/ opponent = <<>>
    \/ dateTimeStr = <<>>
    \/ ~ \E k \in 1..Len(dateTimeStr) : isDigit(dateTimeStr[k])

\* the row pushed with the date parseDateTime returned, null or not
dropsRowNever(matchDate) == FALSE

\* verdao.js:241, 278  if (!matchDate) return
dropsRow(matchDate) == matchDate = NullDate

\* verdao.js:221-260  the callback of one row: no match or one
matchesOfRow(row, competition, url) ==
    LET dateTimeStr == cellText(row, 1)
        opponent    == cellText(row, 2)
        location    == cellText(row, 3)
        tv          == cellText(row, 4)
    IN  IF Len(row.cells) < 3 THEN <<>>
        ELSE IF skipsRow(dateTimeStr, opponent) THEN <<>>
        ELSE IF dropsRow(row.date) THEN <<>>
        ELSE << [date        |-> row.date,
                 opponent    |-> trim(opponent),
                 location    |-> trim(location),
                 broadcast   |-> parseBroadcast(tv),
                 competition |-> competition,
                 isHome      |-> namesHomeStadium(location)
                                 \/ namesHomeStadium(tv),
                 source      |-> url] >>

\* verdao.js:213-261  the callback of one table
matchesOfTable(table, competition, url) ==
    IF ~ isScheduleTable(table) THEN <<>>
    ELSE concat([k \in 1..Len(table.rows) |->
                    matchesOfRow(table.rows[k], competition, url)])

\* verdao.js:264-265  the url of the home page, no page of a competition
isHomePage(url) == url = "/"

\* verdao.js:284-285  text.match(/\[([^\]]+)\]/): what stands between the
\* first '[' that is followed by a character other than ']' and the next ']'
bracketed(text) ==
    LET closes(i) == { j \in (i + 2)..Len(text) :
                         /\ text[j] = "]"
                         /\ \A k \in (i + 1)..(j - 1) : text[k] # "]" }
        opens == { i \in 1..Len(text) : text[i] = "[" /\ closes(i) # {} }
    IN  IF opens = {} THEN <<>>
        ELSE LET i == CHOOSE x \in opens : \A y \in opens : x <= y
                 j == CHOOSE x \in closes(i) : TRUE
             IN  SubSeq(text, i + 1, j - 1)

\* verdao.js:286  the alternatives of the expression, in its order
ChannelWords ==
    << <<"R","e","c","o","r","d">>, <<"C","a","z","~e">>, <<"T","N","T">>, <<"H","B","O">>,
       <<"G","l","o","b","o">>, <<"S","p","o","r","t","v">>,
       <<"P","r","e","m","i","e","r","e">>, <<"A","m","a","z","o","n">> >>

startsWith(text, word) ==
    Len(word) <= Len(text) /\ SubSeq(text, 1, Len(word)) = word

\* verdao.js:286  text.match(/(Record|...|Amazon)/g): every match, from left
\* to right
RECURSIVE channelWordsIn(_)
channelWordsIn(text) ==
    IF text = <<>> THEN <<>>
    ELSE LET found == { k \in 1..Len(ChannelWords) : startsWith(text, ChannelWords[k]) }
         IN  IF found = {} THEN channelWordsIn(Tail(text))
             ELSE LET k == CHOOSE x \in found : \A y \in found : x <= y
                  IN  <<ChannelWords[k]>>
                      \o channelWordsIn(SubSeq(text, Len(ChannelWords[k]) + 1,
                                               Len(text)))

Palmeiras == <<"P","a","l","m","e","i","r","a","s">>

\* verdao.js:268-307  the callback of one row of the section: row.text is
\* $row.text(), row.alt the alt of its last image, '' without one
matchesOfSectionRow(row, competition, url) ==
    LET text      == row.text
        opponent  == row.alt
        location  == bracketed(text)
        broadcast == join(channelWordsIn(text), <<",", " ">>)
    IN  IF ~ sectionDateMatch(text).matched THEN <<>>
        ELSE IF dropsRow(row.date) THEN <<>>
        ELSE IF opponent = <<>> \/ opponent = Palmeiras \/ trim(opponent) = <<>>
        THEN <<>>
        ELSE << [date        |-> row.date,
                 opponent    |-> trim(opponent),
                 location    |-> trim(location),
                 broadcast   |-> parseBroadcast(broadcast),
                 competition |-> competition,
                 isHome      |-> namesHomeStadium(location)
                                 \/ namesHomeStadium(text),
                 source      |-> url] >>

\* verdao.js:209-313  the matches of the tables, then those of the section
\* of the home page
parseMatchesFromHTML(html, competition, url) ==
    concat([k \in 1..Len(html.tables) |->
               matchesOfTable(html.tables[k], competition, url)])
    \o (IF isHomePage(url)
        THEN concat([k \in 1..Len(html.section) |->
                        matchesOfSectionRow(html.section[k], competition, url)])
        ELSE <<>>)

\* the catch of the page loop rethrowing instead of going on
catchPageErrorRethrow(message) == "throw"

\* verdao.js:346-349  the catch of the page loop: warn, then the next page
catchPageError(message) == "continue"

\* the catch of getExistingEvents answering an empty map instead of throwing
catchListErrorEmptyMap(message) == "return"

\* calendar.js:176-180  the catch of getExistingEvents: log and rethrow
catchListError(message) == "throw"

\* an event of another owner with the same fixtureId and no sync marker
ForeignEvent ==
    [id |-> 1,
     resource |->
        [matchToCalendarEvent(
            [date |-> 4, opponent |-> Santos, location |-> <<>>,
             broadcast |-> <<>>, competition |-> Paulista, isHome |-> FALSE,
             source |-> "/paulista-2026/"])
         EXCEPT !.extendedProperties.private.palmeirasSync = ""]]

markerOf(event) == event.resource.extendedProperties.private.palmeirasSync

\* events.list with timeMin, singleEvents and orderBy startTime: the events
\* that end after timeMin
eventsFrom(items, timeMin) == { e \in items : e.resource.end > timeMin }

\* ... in the order of their start; events of one start come in any order
RECURSIVE listOrders(_)
listOrders(items) ==
    IF items = {} THEN { <<>> }
    ELSE LET first == { e \in items :
                          \A o \in items : e.resource.start <= o.resource.start }
         IN  UNION { { <<e>> \o rest : rest \in listOrders(items \ {e}) } :
                     e \in first }

\* the filter comparing the marker with the boolean true, which no stored
\* string is identical to
palmeirasEventsBooleanMarker(items) == SelectSeq(items, LAMBDA e : FALSE)

\* calendar.js:160-162  the filter on the sync marker
palmeirasEvents(items) == SelectSeq(items, LAMBDA e : markerOf(e) = "true")

\* calendar.js:164-170  fixtureMap, a later event of a fixtureId replacing an
\* earlier one
RECURSIVE fixtureMapOf(_, _)
fixtureMapOf(fixtureMap, items) ==
    IF items = <<>> THEN fixtureMap
    ELSE fixtureMapOf(
            IF fixtureIdOf(Head(items).resource) # <<>>
            THEN mapSet(fixtureMap, fixtureIdOf(Head(items).resource),
                        Head(items).id)
            ELSE fixtureMap,
            Tail(items))

\* Map.prototype.get, 0 standing for undefined
mapGet(map, key) == IF mapIndex(map, key) = 0 THEN 0 ELSE map[mapIndex(map, key)].value

\* calendar.js:156  maxResults of events.list
maxResults == 2500

\* the page events.list answers with: the first maxResults events of the
\* list; earlier counts the events of the window that start before the ones
\* of items (instances of recurring events, singleEvents being set). The code
\* reads no nextPageToken
firstPage(items, earlier) ==
    LET room == IF earlier >= maxResults THEN 0 ELSE maxResults - earlier
    IN  SubSeq(items, 1, IF Len(items) < room THEN Len(items) ELSE room)

\* calendar.js:160-173  getExistingEvents on the page it was answered
getExistingEvents(page) == fixtureMapOf(<<>>, palmeirasEvents(page))

\* config.js:533      validateEnv
MissingEnv == <<"Missing environment variables: ", "GOOGLE_CREDENTIALS">>
\* calendar.js:83-86  parseCredentials
CredentialsError == <<"Failed to parse GOOGLE_CREDENTIALS">>
\* what the client library throws: auth.getClient, events.list, a write, a parse
ClientError == <<"invalid_grant">>
ListError   == <<"Not Found">>
WriteError  == <<"Rate Limit Exceeded">>
ParseError  == <<"Cannot read properties of undefined">>

\* the record of the catch block without the message of the error
errorResultWithoutMessage(id, start, now, message) ==
    [NoResult EXCEPT !.runId = id, !.status = "error", !.startTime = start,
                     !.endTime = now, !.duration = now - start]

\* config.js:609-616  the result of the catch block
errorResult(id, start, now, message) ==
    [NoResult EXCEPT !.runId = id, !.status = "error", !.startTime = start,
                     !.endTime = now, !.duration = now - start,
                     !.error = message]

\* config.js:557-567, 590-601  the result of a run that came through
successResult(id, start, now, found, syncResult) ==
    [NoResult EXCEPT !.runId = id, !.status = "success", !.startTime = start,
                     !.endTime = now, !.duration = now - start,
                     !.fixturesFound = found,
                     !.fixturesCreated = syncResult.created,
                     !.fixturesUpdated = syncResult.updated,
                     !.fixturesSkipped = syncResult.skipped,
                     !.errors = syncResult.errors]

\* the catch of the loop throwing the error of the write again
catchWriteErrorRethrow(message) == "throw"

\* calendar.js:220-228  the catch inside the loop over the matches: the error
\* is logged and counted, the loop goes on
catchWriteError(message) == "continue"

\* the counting of a failed write without its entry in errors
countWriteUnlisted(syncResult, kind, ok, summary) ==
    IF ok
    THEN IF kind = "update"
         THEN [syncResult EXCEPT !.updated = @ + 1]
         ELSE [syncResult EXCEPT !.created = @ + 1]
    ELSE [syncResult EXCEPT !.skipped = @ + 1]

\* the counting treating a failed write as a created event
countWriteIgnoringError(syncResult, kind, ok, summary) ==
    IF kind = "update"
    THEN [syncResult EXCEPT !.updated = @ + 1]
    ELSE [syncResult EXCEPT !.created = @ + 1]

\* calendar.js:211-230  updated++, created++, or errors.push and skipped++
countWrite(syncResult, kind, ok, summary) ==
    IF ok
    THEN IF kind = "update"
         THEN [syncResult EXCEPT !.updated = @ + 1]
         ELSE [syncResult EXCEPT !.created = @ + 1]
    ELSE [syncResult EXCEPT
            !.errors = Append(@, [fixture |-> summary, error |-> WriteError]),
            !.skipped = @ + 1]

\* the lookup ignored: every match is inserted
writeKindAlwaysInsert(existingEventId) == "insert"

\* calendar.js:201-218  if (existingEventId) events.update, else events.insert
writeKind(existingEventId) ==
    IF existingEventId # 0 THEN "update" ELSE "insert"

\* an update that replaces every event carrying the fixtureId of the resource,
\* with the sync marker or without
updateEventByFixtureId(items, eventId, resource) ==
    { IF e.id = eventId \/ fixtureIdOf(e.resource) = fixtureIdOf(resource)
      THEN [e EXCEPT !.resource = resource] ELSE e :
      e \in items }

\* events.update: the resource of the event of that id is replaced
updateEvent(items, eventId, resource) ==
    { IF e.id = eventId THEN [e EXCEPT !.resource = resource] ELSE e :
      e \in items }

\* events.insert: a new event under a fresh id
insertEvent(items, eventId, resource) ==
    items \cup { [id |-> eventId, resource |-> resource] }

\* the instants the clock may show when it is read next: time passes between
\* two readings, the clock never runs backwards
Later == clock..MaxClock

Init ==
    /\ clock = 0
    /\ credentials \in {"missing", "malformed", "valid"}
    /\ calendar = {ForeignEvent}
    /\ calAtStart = {ForeignEvent}
    /\ nextEventId = 2
    /\ statusFile = NoRuns
    /\ runs = 0
    /\ RunOff
    /\ ProcOff
    /\ FetchOff
    /\ DateOff
    /\ ServerOff
    /\ CallOff

\* the check of validateEnv skipped
validateEnvSkipped(creds) == "ok"

\* config.js:528-537  validateEnv: throws when GOOGLE_CREDENTIALS is not set
validateEnv(creds) == IF creds = "missing" THEN "throw" ELSE "ok"

\* the test for an empty list never taken
noFixturesNever(matches) == FALSE

\* config.js:555  processedMatches.length === 0
noFixtures(matches) == Len(matches) = 0

\* config.js:539-550  sync() up to the first request: runId, startTime and
\* validateEnv; a missing variable throws into the catch block
StartRun ==
    /\ pc = "idle"
    /\ runs < MaxRuns
    /\ runs' = runs + 1
    /\ clock' \in Later
    /\ runId' = clock'
    /\ startTime' = clock'
    /\ pageIdx' = 1
    /\ attempt' = 0
    /\ allMatches' = <<>>
    /\ processedMatches' = <<>>
    /\ listNow' = 0
    /\ existingEvents' = <<>>
    /\ matchIdx' = 1
    /\ counts' = NoCounts
    /\ outcome' = "none"
    /\ ops' = <<>>
    /\ pageOutcome' = <<>>
    /\ calls' = <<>>
    /\ saved' = <<>>
    /\ calAtStart' = calendar
    /\ prevMatches' = processedMatches
    /\ prevOps' = ops
    /\ IF validateEnv(credentials) = "throw"
       THEN /\ err' = MissingEnv
            /\ result' = errorResult(clock', clock', clock', MissingEnv)
            /\ failedAt' = "env"
            /\ requested' = <<>>
            /\ pc' = "save"
       ELSE /\ err' = <<>>
            /\ result' = NoResult
            /\ failedAt' = "none"
            /\ requested' = <<VerdaoPages[1].url>>
            /\ pc' = "fetch"
    /\ UNCHANGED <<credentials, calendar, nextEventId, statusFile>>
    /\ UNCHANGED <<procVars, fetchVars, dateVars, serverVars, callVars>>

\* verdao.js:329-350 with fetchHTML (48-81) inlined: one fetch(url) of the
\* page of the loop and what follows it up to the next request
FetchRequest ==
    /\ pc = "fetch"
    /\ \E response \in Responses(PageHtmls(VerdaoPages[pageIdx])) :
        LET page       == VerdaoPages[pageIdx]
            step       == fetchIteration(response)
            exhausted  == /\ step = "next"
                          /\ ~ loopContinues(attempt + 1, DefaultRetries)
            parseThrew == step = "returnHtml" /\ response.body.malformed
            kind       == IF step = "returnNull" THEN "null"
                          ELSE IF parseThrew THEN "parseThrew"
                          ELSE IF step = "returnHtml" THEN "html"
                          ELSE "threw"
            message    == IF parseThrew THEN ParseError
                          ELSE fetchErrorMessage(page.url, DefaultRetries)
        IN  IF step = "next" /\ ~ exhausted
            THEN \* the delay of 1000 * (i + 1) ms, then i++
                 /\ attempt' = attempt + 1
                 /\ UNCHANGED <<pc, pageIdx, allMatches, pageOutcome, result,
                                err, failedAt, requested, clock>>
            ELSE IF (exhausted \/ parseThrew) /\ catchPageError(message) = "throw"
            THEN \* out of fetchPalmeirasFixtures, into the catch of sync()
                 /\ pageOutcome' = Append(pageOutcome, kind)
                 /\ clock' \in Later
                 /\ err' = message
                 /\ result' = errorResult(runId, startTime, clock', message)
                 /\ failedAt' = "page"
                 /\ pc' = "save"
                 /\ UNCHANGED <<pageIdx, attempt, allMatches, requested>>
            ELSE \* the page is done: its matches, or none, and the next page
                 /\ pageOutcome' = Append(pageOutcome, kind)
                 /\ allMatches' =
                       IF kind = "html"
                       THEN allMatches \o parseMatchesFromHTML(
                                response.body, page.competition, page.url)
                       ELSE allMatches
                 /\ attempt' = 0
                 /\ pageIdx' = pageIdx + 1
                 /\ requested' =
                       IF pageIdx = Len(VerdaoPages) THEN requested
                       ELSE Append(requested, VerdaoPages[pageIdx + 1].url)
                 /\ pc' = IF pageIdx = Len(VerdaoPages) THEN "process" ELSE "fetch"
                 /\ UNCHANGED <<result, err, failedAt, clock>>
    /\ UNCHANGED <<runId, startTime, processedMatches, listNow, existingEvents,
                   matchIdx, counts, outcome>>
    /\ UNCHANGED <<ops, calls, saved, calAtStart, prevMatches, prevOps>>
    /\ UNCHANGED <<credentials, calendar, nextEventId, statusFile, runs>>
    /\ UNCHANGED <<procVars, fetchVars, dateVars, serverVars, callVars>>

\* config.js:553-588 and calendar.js:190, 116  processMatches, the run without
\* fixtures, and parseCredentials at the start of getCalendarClient
Process ==
    /\ pc = "process"
    /\ clock' \in Later
    /\ LET matches == processMatches(allMatches, clock')
       IN  /\ processedMatches' = matches
           /\ IF noFixtures(matches)
              THEN /\ result' = successResult(runId, startTime, clock', 0,
                                              NoCounts)
                   /\ pc' = "save"
                   /\ UNCHANGED <<err, failedAt, calls>>
              ELSE IF credentials # "valid"
              THEN /\ calls' = Append(calls, "getCalendarClient")
                   /\ err' = CredentialsError
                   /\ result' = errorResult(runId, startTime, clock',
                                            CredentialsError)
                   /\ failedAt' = "credentials"
                   /\ pc' = "save"
              ELSE /\ calls' = Append(calls, "getCalendarClient")
                   /\ pc' = "client"
                   /\ UNCHANGED <<result, err, failedAt>>
    /\ UNCHANGED <<runId, startTime, pageIdx, attempt, allMatches, listNow,
                   existingEvents, matchIdx, counts, outcome>>
    /\ UNCHANGED <<ops, pageOutcome, saved, requested, calAtStart, prevMatches,
                   prevOps>>
    /\ UNCHANGED <<credentials, calendar, nextEventId, statusFile, runs>>
    /\ UNCHANGED <<procVars, fetchVars, dateVars, serverVars, callVars>>

\* calendar.js:124-147, 152  auth.getClient() answers or throws; then
\* getExistingEvents takes now and sends events.list
GetCalendarClient ==
    /\ pc = "client"
    /\ clock' \in Later
    /\ \E ok \in BOOLEAN :
          IF ok
          THEN /\ listNow' = clock'
               /\ calls' = Append(calls, "events.list")
               /\ pc' = "list"
               /\ UNCHANGED <<result, err, failedAt>>
          ELSE /\ err' = ClientError
               /\ result' = errorResult(runId, startTime, clock', ClientError)
               /\ failedAt' = "client"
               /\ pc' = "save"
               /\ UNCHANGED <<listNow, calls>>
    /\ UNCHANGED <<runId, startTime, pageIdx, attempt, allMatches,
                   processedMatches, existingEvents, matchIdx, counts, outcome>>
    /\ UNCHANGED <<ops, pageOutcome, saved, requested, calAtStart, prevMatches,
                   prevOps>>
    /\ UNCHANGED <<credentials, calendar, nextEventId, statusFile, runs>>
    /\ UNCHANGED <<procVars, fetchVars, dateVars, serverVars, callVars>>

\* calendar.js:153-180, 198  events.list answers or throws; the fixtureMap;
\* the loop over the matches starts when there is one
GetExistingEvents ==
    /\ pc = "list"
    /\ \E ok \in BOOLEAN :
          IF ok
          THEN /\ \E items \in listOrders(eventsFrom(calendar, listNow)) :
                     existingEvents' = getExistingEvents(firstPage(items, 0))
               /\ pc' = IF Len(processedMatches) = 0 THEN "finish"
                        ELSE "reconcile"
               /\ UNCHANGED <<result, err, failedAt, clock>>
          ELSE IF catchListError(ListError) = "throw"
          THEN /\ clock' \in Later
               /\ err' = ListError
               /\ result' = errorResult(runId, startTime, clock', ListError)
               /\ failedAt' = "list"
               /\ pc' = "save"
               /\ UNCHANGED existingEvents
          ELSE /\ existingEvents' = <<>>
               /\ failedAt' = "list"
               /\ pc' = IF Len(processedMatches) = 0 THEN "finish"
                        ELSE "reconcile"
               /\ UNCHANGED <<result, err, clock>>
    /\ UNCHANGED <<runId, startTime, pageIdx, attempt, allMatches,
                   processedMatches, listNow, matchIdx, counts, outcome>>
    /\ UNCHANGED <<ops, pageOutcome, calls, saved, requested, calAtStart,
                   prevMatches, prevOps>>
    /\ UNCHANGED <<credentials, calendar, nextEventId, statusFile, runs>>
    /\ UNCHANGED <<procVars, fetchVars, dateVars, serverVars, callVars>>

\* calendar.js:198-233  one iteration of the loop over matches: the payload,
\* the lookup, the update or the insert and what its answer does
ReconcileMatch ==
    /\ pc = "reconcile"
    /\ \E ok \in BOOLEAN :
        LET match           == processedMatches[matchIdx]
            event           == matchToCalendarEvent(match)
            fixtureId       == fixtureIdOf(event)
            existingEventId == mapGet(existingEvents, fixtureId)
            kind            == writeKind(existingEventId)
        IN  /\ calendar' =
                  IF ~ ok THEN calendar
                  ELSE IF kind = "update"
                  THEN updateEvent(calendar, existingEventId, event)
                  ELSE insertEvent(calendar, nextEventId, event)
            /\ nextEventId' = IF ok /\ kind = "insert" THEN nextEventId + 1
                              ELSE nextEventId
            /\ IF ~ ok /\ catchWriteError(WriteError) = "throw"
               THEN \* out of syncMatchesToCalendar, into the catch of sync()
                    /\ clock' \in Later
                    /\ err' = WriteError
                    /\ result' = errorResult(runId, startTime, clock',
                                             WriteError)
                    /\ failedAt' = "write"
                    /\ pc' = "save"
                    /\ UNCHANGED <<matchIdx, counts>>
               ELSE \* the count, the delay of 100 ms and the next match
                    /\ counts' = countWrite(counts, kind, ok, event.summary)
                    /\ matchIdx' = matchIdx + 1
                    /\ pc' = IF matchIdx = Len(processedMatches) THEN "finish"
                             ELSE "reconcile"
                    /\ UNCHANGED <<result, err, failedAt, clock>>
            /\ calls' = Append(calls, IF kind = "update" THEN "events.update"
                                      ELSE "events.insert")
            /\ ops' = Append(ops,
                  [kind      |-> kind,
                   eventId   |-> IF kind = "update" THEN existingEventId
                                 ELSE IF ok THEN nextEventId ELSE 0,
                   ok        |-> ok,
                   fixtureId |-> fixtureId,
                   summary   |-> event.summary,
                   match     |-> match])
    /\ UNCHANGED <<runId, startTime, pageIdx, attempt, allMatches,
                   processedMatches, listNow, existingEvents, outcome>>
    /\ UNCHANGED <<pageOutcome, saved, requested, calAtStart, prevMatches,
                   prevOps>>
    /\ UNCHANGED <<credentials, statusFile, runs>>
    /\ UNCHANGED <<procVars, fetchVars, dateVars, serverVars, callVars>>

\* calendar.js:233-241, config.js:590-601  after the last delay: the counts
\* go back to sync(), which builds its result
FinishSync ==
    /\ pc = "finish"
    /\ clock' \in Later
    /\ result' = successResult(runId, startTime, clock', Len(processedMatches),
                               counts)
    /\ pc' = "save"
    /\ UNCHANGED <<runId, startTime, pageIdx, attempt, allMatches,
                   processedMatches, listNow, existingEvents, matchIdx, counts,
                   outcome, err>>
    /\ UNCHANGED <<credentials, calendar, nextEventId, statusFile, runs>>
    /\ UNCHANGED <<histVars, procVars, fetchVars, dateVars, serverVars, callVars>>

\* what ensureDataDir or writeFile throws
StorageError == <<"EACCES: permission denied">>

\* the catch of saveRunStatus throwing the error of the write again
catchSaveErrorRethrow(message) == "throw"

\* part_002:33-36  the catch of saveRunStatus: the error is logged, nothing is
\* thrown
catchSaveError(message) == "return"

\* part_002:28-37, config.js:569-570, 606-607, 619-620  saveRunStatus writes
\* the file or logs its own error; then sync() returns result or throws err
SaveRunStatus ==
    /\ pc = "save"
    /\ \E written \in BOOLEAN :
          /\ statusFile' = IF written THEN result ELSE statusFile
          /\ saved' = Append(saved, [status |-> result, written |-> written])
          /\ err' = IF ~ written /\ catchSaveError(StorageError) = "throw"
                    THEN StorageError ELSE err
    /\ outcome' = IF err' # <<>> THEN "threw" ELSE "returned"
    /\ pc' = "idle"
    /\ UNCHANGED <<runId, startTime, pageIdx, attempt, allMatches,
                   processedMatches, listNow, existingEvents, matchIdx, counts,
                   result>>
    /\ UNCHANGED <<ops, pageOutcome, failedAt, calls, requested, calAtStart,
                   prevMatches, prevOps>>
    /\ UNCHANGED <<clock, credentials, calendar, nextEventId, runs>>
    /\ UNCHANGED <<procVars, fetchVars, dateVars, serverVars, callVars>>

Next ==
    \/ StartRun
    \/ FetchRequest
    \/ Process
    \/ GetCalendarClient
    \/ GetExistingEvents
    \/ ReconcileMatch
    \/ FinishSync
    \/ SaveRunStatus

Spec == Init /\ [][Next]_vars

(***************************************************************************)
(* Claims about the runs, checked under Spec                                *)
(***************************************************************************)
\* the events written for the fixture of a match: those with the sync marker
\* whose description names its opponent and competition
ownedEvents(items, match) ==
    { e \in items : /\ markerOf(e) = "true"
                    /\ e.resource.description.matchId = getMatchUniqueKey(match) }

eventIds(items) == { e.id : e \in items }

\* the run before wrote the fixture of write k of this run, with another date
Rescheduled(j, k) ==
    /\ prevOps[j].ok
    /\ prevOps[j].match.opponent = ops[k].match.opponent
    /\ prevOps[j].match.competition = ops[k].match.competition
    /\ prevOps[j].match.date # ops[k].match.date

SameListAgain ==
    /\ runs >= 2
    /\ processedMatches = prevMatches
    /\ Len(prevOps) = Len(prevMatches)

failedOps == SelectSeq(ops, LAMBDA op : ~ op.ok)

\* C6: a write that throws is recorded in errors and counted as skipped, the
\* writes that follow are still attempted, and the counts add up: with n matches
\* and one failing write, skipped = 1 and created + updated = n - 1.
C6_WriteIsolation ==
    /\ counts.skipped = Len(failedOps)
    /\ counts.errors = [k \in 1..Len(failedOps) |->
                           [fixture |-> failedOps[k].summary, error |-> WriteError]]
    /\ counts.created + counts.updated = Len(ops) - Len(failedOps)
    /\ pc = "reconcile" => Len(ops) = matchIdx - 1
    /\ pc = "finish" =>
          /\ Len(ops) = Len(processedMatches)
          /\ \A k \in 1..Len(ops) :
                fixtureIdOf(matchToCalendarEvent(processedMatches[k]))
                    = ops[k].fixtureId
          /\ Len(failedOps) = 1 =>
                /\ counts.skipped = 1
                /\ counts.created + counts.updated = Len(processedMatches) - 1

C6_Witness ==
    /\ pc = "finish"
    /\ Len(processedMatches) = 2
    /\ ~ ops[1].ok
    /\ ops[2].ok
    /\ counts.skipped = 1
    /\ counts.created = 1

\* C7: when parsing the credentials, building the client or listing the events
\* fails, no create or update is issued, the record of the run has status
\* 'error' and sync() throws.
C7_AuthFailureFatal ==
    failedAt \in {"credentials", "client", "list"} =>
        /\ ops = <<>>
        /\ calendar = calAtStart
        /\ pc \in {"save", "idle"}
        /\ result.status = "error"
        /\ result.error = (IF failedAt = "credentials" THEN CredentialsError
                           ELSE IF failedAt = "client" THEN ClientError
                           ELSE ListError)
        /\ pc = "idle" => outcome = "threw"

C7_Witness ==
    /\ failedAt = "list"
    /\ pc = "idle"
    /\ outcome = "threw"
    /\ Len(processedMatches) = 2
    /\ statusFile.status = "error"

isSourceFailure(kind) == kind \in {"null", "threw", "parseThrew"}

\* C10: a page that answers 404 or 410, whose fetch fails after all retries or
\* whose parsing throws adds no match, every page is still fetched, and no run
\* fails because of a page: it ends 'success' unless a later step fails.
C10_SourceFailureNotFatal ==
    /\ \A p \in 1..Len(pageOutcome) :
          isSourceFailure(pageOutcome[p]) =>
              \A k \in 1..Len(allMatches) :
                  allMatches[k].source # VerdaoPages[p].url
    /\ pc = "fetch" => Len(pageOutcome) = pageIdx - 1
    /\ runs > 0 /\ pc # "fetch" /\ failedAt # "env" =>
          Len(pageOutcome) = Len(VerdaoPages)
    /\ failedAt # "page"
    /\ runs > 0 /\ pc = "idle" /\ failedAt = "none" =>
          result.status = "success" /\ outcome = "returned"

C10_Witness ==
    /\ pc = "idle"
    /\ pageOutcome = <<"threw", "html">>
    /\ Len(allMatches) = 1
    /\ result.status = "success"
    /\ result.fixturesCreated = 1
    /\ outcome = "returned"

\* C11: when GOOGLE_CREDENTIALS is missing, the run fails with the error that
\* lists the missing variable before any page is requested and before any call
\* of the calendar.
C11_ConfigCheckedFirst ==
    credentials = "missing" /\ runs > 0 =>
        /\ failedAt = "env"
        /\ requested = <<>>
        /\ pageOutcome = <<>>
        /\ calls = <<>>
        /\ ops = <<>>
        /\ calendar = calAtStart
        /\ err = MissingEnv
        /\ result.status = "error"
        /\ result.error = MissingEnv
        /\ pc \in {"save", "idle"}
        /\ pc = "idle" => outcome = "threw"

C11_Witness ==
    /\ credentials = "missing"
    /\ runs = 2
    /\ pc = "idle"
    /\ failedAt = "env"
    /\ outcome = "threw"
    /\ statusFile.error = MissingEnv

\* processMatches has run in this run of sync() and left no match
processedNothing ==
    /\ runs > 0
    /\ Len(pageOutcome) = Len(VerdaoPages)
    /\ pc \notin {"fetch", "process"}
    /\ Len(processedMatches) = 0

\* C12: a run whose processed list is empty makes no call of the calendar (no
\* client, no list, no insert, no update), hands saveRunStatus a record with
\* status 'success' and every count zero, and returns that record.
C12_NothingToDo ==
    processedNothing =>
        /\ calls = <<>>
        /\ ops = <<>>
        /\ calendar = calAtStart
        /\ pc \in {"save", "idle"}
        /\ err = <<>>
        /\ result.status = "success"
        /\ result.fixturesFound = 0
        /\ result.fixturesCreated = 0
        /\ result.fixturesUpdated = 0
        /\ result.fixturesSkipped = 0
        /\ result.errors = <<>>
        /\ pc = "idle" =>
              /\ outcome = "returned"
              /\ Len(saved) = 1
              /\ saved[1].status = result

C12_Witness ==
    /\ processedNothing
    /\ Len(allMatches) = 2
    /\ pc = "idle"
    /\ outcome = "returned"
    /\ statusFile = result
    /\ result.fixturesFound = 0

\* the message of the error each failing step throws
errorOf(step) ==
    IF step = "env" THEN MissingEnv
    ELSE IF step = "credentials" THEN CredentialsError
    ELSE IF step = "client" THEN ClientError
    ELSE IF step = "list" THEN ListError
    ELSE <<>>

\* C13: every run of sync() calls saveRunStatus exactly once, with its final
\* record and as its last step: a run that returns saved a record with status
\* 'success'; a run that failed saved a record with status 'error' holding the
\* message of the error, and throws that error.
C13_StatusPersistedOnce ==
    /\ pc # "idle" => saved = <<>> /\ outcome = "none"
    /\ runs > 0 /\ pc = "idle" =>
          /\ Len(saved) = 1
          /\ saved[1].status = result
          /\ outcome = (IF failedAt = "none" THEN "returned" ELSE "threw")
          /\ outcome = "returned" =>
                /\ result.status = "success"
                /\ result.error = <<>>
                /\ err = <<>>
          /\ outcome = "threw" =>
                /\ result.status = "error"
                /\ result.error = errorOf(failedAt)
                /\ err = errorOf(failedAt)
                /\ err # <<>>

C13_Witness ==
    /\ pc = "idle"
    /\ runs = 2
    /\ failedAt = "client"
    /\ outcome = "threw"
    /\ Len(saved) = 1
    /\ saved[1].status.status = "error"
    /\ saved[1].status.error = ClientError
    /\ prevOps # <<>>

\* C15: a run in which k >= 1 writes failed still ends with status 'success':
\* its record has fixturesSkipped = k and an errors list of k entries, each with
\* the summary of the fixture and the message of the error, and sync() returns.
C15_PartialFailuresStaySuccess ==
    Len(failedOps) >= 1 /\ pc \in {"save", "idle"} =>
        /\ failedAt = "none"
        /\ err = <<>>
        /\ result.status = "success"
        /\ result.error = <<>>
        /\ result.fixturesFound = Len(processedMatches)
        /\ result.fixturesSkipped = Len(failedOps)
        /\ Len(result.errors) = Len(failedOps)
        /\ \A k \in 1..Len(failedOps) :
              /\ result.errors[k].fixture = eventSummary(failedOps[k].match)
              /\ result.errors[k].error = WriteError
        /\ pc = "idle" => outcome = "returned"

C15_Witness ==
    /\ Len(failedOps) = 2
    /\ pc = "idle"
    /\ outcome = "returned"
    /\ statusFile = result
    /\ result.status = "success"
    /\ result.fixturesSkipped = 2
    /\ result.fixturesCreated = 0

\* the writes of this run of one kind that succeeded
succeededOps(kind) == SelectSeq(ops, LAMBDA op : op.kind = kind /\ op.ok)

\* C18: syncMatchesToCalendar issues exactly one write for each match of the
\* list, in the order of the list: an update of the event id the inventory holds
\* for the Unique Key of the match when it holds one, an insert otherwise;
\* created and updated count the writes of each kind that succeeded.
C18_CreateOrUpdate ==
    /\ \A k \in 1..Len(ops) :
          LET key == getMatchUniqueKey(processedMatches[k])
          IN  /\ ops[k].match = processedMatches[k]
              /\ IF mapIndex(existingEvents, key) # 0
                 THEN /\ ops[k].kind = "update"
                      /\ ops[k].eventId = mapGet(existingEvents, key)
                      /\ calls[k + 2] = "events.update"
                 ELSE /\ ops[k].kind = "insert"
                      /\ calls[k + 2] = "events.insert"
    /\ ops # <<>> => Len(calls) = Len(ops) + 2
    /\ pc = "reconcile" => Len(ops) = matchIdx - 1
    /\ pc = "finish" => Len(ops) = Len(processedMatches)
    /\ failedAt = "none" /\ pc \in {"save", "idle"} =>
          /\ Len(ops) = Len(processedMatches)
          /\ result.fixturesCreated = Len(succeededOps("insert"))
          /\ result.fixturesUpdated = Len(succeededOps("update"))
    /\ counts.created = Len(succeededOps("insert"))
    /\ counts.updated = Len(succeededOps("update"))

C18_Witness ==
    /\ pc = "idle"
    /\ Len(ops) = 2
    /\ \E j, k \in 1..2 :
          /\ ops[j].kind = "update" /\ ops[j].ok
          /\ ops[k].kind = "insert" /\ ops[k].ok
    /\ result.fixturesCreated = 1
    /\ result.fixturesUpdated = 1

\* C19: the output of processMatches is sorted ascending by date: of every two
\* consecutive matches the first has a date less than or equal to the second's.
C19_SortedByDate ==
    procPc = "processed" =>
        \A i \in 1..(Len(processed) - 1) :
            processed[i].date <= processed[i + 1].date

\* three future matches of three fixtures given latest first
C19_Witness ==
    /\ procPc = "processed"
    /\ Len(rawMatches) = 3
    /\ Len(processed) = 3
    /\ rawMatches[1].date > rawMatches[3].date
    /\ processed[1] = rawMatches[3]
    /\ processed[1].date < processed[3].date

(***************************************************************************)
(* Claims about the dates, checked under SpecDate                           *)
(***************************************************************************)
\* C16: for a wall-clock time of Sao Paulo (UTC-3) createDateInSaoPaulo returns
\* the instant three hours after that wall-clock time read as UTC, an instant
\* whose civil time in Sao Paulo is the requested one, whatever the timezone of
\* the machine.
C16_AsStated ==
    datePc = "created" =>
        /\ dateOut = DateUTC(dateIn.year, dateIn.month - 1, dateIn.day,
                             dateIn.hour, dateIn.minute) + 180
        /\ civilFields(dateOut, SaoPauloOffset) =
              [year |-> dateIn.year, month |-> dateIn.month,
               day |-> dateIn.day, hour |-> dateIn.hour,
               minute |-> dateIn.minute]

\* the year parseDateTime takes before the rollover: the one of the label, or
\* the current one
chosenYear ==
    IF dateIn.competition = Paulista THEN 2026
    ELSE civilFields(dateNow, machineOffset).year

\* C17: parseDateTime computes the date for the chosen year; when that date is
\* before now and the current month is December it returns the date computed
\* for the following year, in every other case the date of the chosen year.
C17_YearRollover ==
    datePc = "parsed" /\ dateIn.text # ToBeDefined =>
        LET first    == createDateInSaoPaulo(chosenYear, dateIn.month,
                            dateIn.day, dateIn.hour, dateIn.minute)
            december == civilFields(dateNow, machineOffset).month = 12
            year     == IF first < dateNow /\ december THEN chosenYear + 1
                        ELSE chosenYear
        IN  dateOut = createDateInSaoPaulo(year, dateIn.month, dateIn.day,
                                           dateIn.hour, dateIn.minute)

\* "05/1 - 15h00" parsed on 2025-12-28 with no year in the label
C17_Witness ==
    /\ datePc = "parsed"
    /\ dateIn.text = <<"0","5","/","1"," ","-"," ","1","5","h","0","0">>
    /\ dateIn.competition = ProximosJogos
    /\ dateNow = DateUTC(2025, 11, 28, 12, 0)
    /\ dateOut = DateUTC(2026, 0, 5, 18, 0)
    /\ civilFields(dateOut, SaoPauloOffset).year = 2026

(***************************************************************************)
(* SpecServer: the process of index.js. The cron tick (cron.js:25-36) and  *)
(* POST /api/sync (server.js:373-397) start runs of the orchestrator; a    *)
(* step is one callback of the event loop. The pages are read and the      *)
(* calendar is listed at instant 0, before every kick-off.                  *)
(***************************************************************************)
Tasks == 1..MaxTasks

\* the lists fetchPalmeirasFixtures may return
ServerRaw ==
    LET paulista == parseMatchesFromHTML(RowHtml(1), Paulista, "/paulista-2026/")
        home     == parseMatchesFromHTML(RowHtml(4), ProximosJogos, "/")
    IN  {<<>>, paulista, home \o paulista}

NoTask ==
    [pc |-> "none", trigger |-> "none", matches |-> <<>>, existing |-> <<>>,
     idx |-> 1, syncResult |-> NoCounts, result |-> NoResult,
     wrote |-> FALSE, overlapped |-> FALSE]

\* the status file: no file, a file just truncated, the text of one record,
\* or the text of a record followed by the end of a longer text
NoFile == [state |-> "absent", content |-> NoResult, size |-> 0]

EmptyFile == [state |-> "empty", content |-> NoResult, size |-> 0]

\* the length of JSON.stringify(status, null, 2), counted in members: the
\* record of server.js:378-383 has 4, the record of the catch block 6, the
\* record of a run that came through 9 and one more for each of its errors
jsonSize(status) ==
    IF status.status = "running" THEN 4
    ELSE IF status.status = "error" THEN 6
    ELSE 9 + Len(status.errors)

\* a write that leaves the file as it was
writeAtStartLost(file, status) == file

\* part_002:31  the text written at position 0 of the file opened with flag
\* 'w': what the file already holds past the end of the text stays
writeAtStart(file, status) ==
    IF jsonSize(status) >= file.size
    THEN [state |-> "whole", content |-> status, size |-> jsonSize(status)]
    ELSE [state |-> "mixed", content |-> NoResult, size |-> file.size]

ReadFailed ==
    [NoResult EXCEPT !.status = "error",
                     !.error = <<"Failed to read status: ", "Unexpected token">>]

\* part_002:39-62  getLatestRunStatus
getLatestRunStatus(file) ==
    IF file.state = "absent" THEN NoRuns
    ELSE IF file.state = "whole" THEN file.content
    ELSE ReadFailed

\* server.js:378-383  the record POST /api/sync saves before it calls runSync
runningStatus(t) ==
    [NoResult EXCEPT !.runId = MaxTasks + t, !.status = "running"]

writesFile(task) ==
    task.pc \in {"announceOpen", "announceWrite", "saveOpen", "saveWrite"}

inFlight(task) == task.pc \notin {"none", "done"}

\* the run ends with its record built and saveRunStatus not called
callSaveSkipped(t, status) ==
    [tasks EXCEPT ![t].pc = "done", ![t].result = status]

\* task t calls saveRunStatus(status): ensureDataDir, then writeFile opens the
\* file; the saves two tasks have under way at once are marked
callSave(t, status) ==
    [u \in Tasks |->
        IF u = t
        THEN [tasks[t] EXCEPT !.pc = "saveOpen", !.result = status,
                              !.overlapped = \E v \in Tasks \ {t} :
                                                writesFile(tasks[v])]
        ELSE IF writesFile(tasks[u])
        THEN [tasks[u] EXCEPT !.overlapped = TRUE]
        ELSE tasks[u]]

ServerInit ==
    /\ tasks = [t \in Tasks |-> NoTask]
    /\ remoteEvents = {ForeignEvent}
    /\ remoteNextId = 2
    /\ statusSlot = NoFile
    /\ finishOrder = <<>>
    /\ ProcOff
    /\ FetchOff
    /\ SyncOff
    /\ DateOff
    /\ CallOff

\* cron.js:25-28, config.js:539-550: the tick calls sync(), which sends its
\* first request; server.js:373-383: the handler calls saveRunStatus
Trigger(t) ==
    /\ tasks[t].pc = "none"
    /\ \A u \in 1..(t - 1) : tasks[u].pc # "none"
    /\ \E trigger \in {"cron", "post"} :
          tasks' = [u \in Tasks |->
              IF u = t
              THEN [tasks[t] EXCEPT
                      !.trigger = trigger,
                      !.pc = IF trigger = "cron" THEN "fetch"
                             ELSE "announceOpen"]
              ELSE IF trigger = "post" /\ writesFile(tasks[u])
              THEN [tasks[u] EXCEPT !.overlapped = TRUE]
              ELSE tasks[u]]
    /\ UNCHANGED <<remoteEvents, remoteNextId, statusSlot, finishOrder>>
    /\ UNCHANGED <<procVars, fetchVars, syncVars, dateVars, callVars>>

\* part_002:30-36  writeFile opens the file, which truncates it, or fails:
\* saveRunStatus logs the failure and returns
FileOpen(t) ==
    /\ tasks[t].pc \in {"announceOpen", "saveOpen"}
    /\ \E ok \in BOOLEAN :
          IF ok
          THEN /\ statusSlot' = EmptyFile
               /\ tasks' = [tasks EXCEPT
                     ![t].pc = IF tasks[t].pc = "announceOpen"
                               THEN "announceWrite" ELSE "saveWrite"]
               /\ UNCHANGED finishOrder
          ELSE /\ tasks' = [tasks EXCEPT
                     ![t].wrote = FALSE,
                     ![t].pc = IF tasks[t].pc = "announceOpen"
                               THEN "fetch" ELSE "done"]
               /\ finishOrder' = IF tasks[t].pc = "saveOpen"
                                 THEN Append(finishOrder, t) ELSE finishOrder
               /\ UNCHANGED statusSlot
    /\ UNCHANGED <<remoteEvents, remoteNextId>>
    /\ UNCHANGED <<procVars, fetchVars, syncVars, dateVars, callVars>>

\* part_002:31-36, server.js:386, config.js:570, 607, 620  the text is
\* written, or the write fails and is logged; after the record 'running' the
\* handler calls runSync(), after the final record the run returns or throws
FileWrite(t) ==
    /\ tasks[t].pc \in {"announceWrite", "saveWrite"}
    /\ \E ok \in BOOLEAN :
          /\ statusSlot' =
                IF ~ ok THEN statusSlot
                ELSE IF tasks[t].pc = "announceWrite"
                THEN writeAtStart(statusSlot, runningStatus(t))
                ELSE writeAtStart(statusSlot, tasks[t].result)
          /\ tasks' = [tasks EXCEPT
                ![t].wrote = ok,
                ![t].pc = IF tasks[t].pc = "announceWrite"
                          THEN "fetch" ELSE "done"]
    /\ finishOrder' = IF tasks[t].pc = "saveWrite"
                      THEN Append(finishOrder, t) ELSE finishOrder
    /\ UNCHANGED <<remoteEvents, remoteNextId>>
    /\ UNCHANGED <<procVars, fetchVars, syncVars, dateVars, callVars>>

\* config.js:550-588, calendar.js:190-191  the pages are in: processMatches,
\* the run without fixtures, or the client and the request of events.list
Fetched(t) ==
    /\ tasks[t].pc = "fetch"
    /\ \E raw \in ServerRaw :
          LET matches == processMatches(raw, 0)
          IN  IF noFixtures(matches)
              THEN tasks' = callSave(t, successResult(t, 0, 0, 0, NoCounts))
              ELSE tasks' = [tasks EXCEPT ![t].matches = matches,
                                          ![t].pc = "list"]
    /\ UNCHANGED <<remoteEvents, remoteNextId, statusSlot, finishOrder>>
    /\ UNCHANGED <<procVars, fetchVars, syncVars, dateVars, callVars>>

\* calendar.js:153-180, 198-218  events.list answers: the fixtureMap and the
\* write of the first match; or it throws, into the catch block of sync()
Listed(t) ==
    /\ tasks[t].pc = "list"
    /\ \E ok \in BOOLEAN :
          IF ok
          THEN \E items \in listOrders(eventsFrom(remoteEvents, 0)) :
                  tasks' = [tasks EXCEPT
                      ![t].existing = getExistingEvents(firstPage(items, 0)),
                      ![t].pc = "write"]
          ELSE tasks' = callSave(t, errorResult(t, 0, 0, ListError))
    /\ UNCHANGED <<remoteEvents, remoteNextId, statusSlot, finishOrder>>
    /\ UNCHANGED <<procVars, fetchVars, syncVars, dateVars, callVars>>

\* calendar.js:203-230  the write of the match of the loop answers or throws;
\* the count; the timer of 100 ms is set
WriteDone(t) ==
    /\ tasks[t].pc = "write"
    /\ \E ok \in BOOLEAN :
        LET match           == tasks[t].matches[tasks[t].idx]
            event           == matchToCalendarEvent(match)
            existingEventId == mapGet(tasks[t].existing, fixtureIdOf(event))
            kind            == writeKind(existingEventId)
        IN  /\ remoteEvents' =
                  IF ~ ok THEN remoteEvents
                  ELSE IF kind = "update"
                  THEN updateEvent(remoteEvents, existingEventId, event)
                  ELSE insertEvent(remoteEvents, remoteNextId, event)
            /\ remoteNextId' = IF ok /\ kind = "insert" THEN remoteNextId + 1
                               ELSE remoteNextId
            /\ tasks' = [tasks EXCEPT
                  ![t].syncResult = countWrite(@, kind, ok, event.summary),
                  ![t].pc = "delay"]
    /\ UNCHANGED <<statusSlot, finishOrder>>
    /\ UNCHANGED <<procVars, fetchVars, syncVars, dateVars, callVars>>

\* calendar.js:198, 230-239, config.js:590-606  the timer fires: the write of
\* the next match, or the counts, the result and saveRunStatus
DelayDone(t) ==
    /\ tasks[t].pc = "delay"
    /\ IF tasks[t].idx = Len(tasks[t].matches)
       THEN tasks' = callSave(t, successResult(t, 0, 0, Len(tasks[t].matches),
                                               tasks[t].syncResult))
       ELSE tasks' = [tasks EXCEPT ![t].idx = @ + 1, ![t].pc = "write"]
    /\ UNCHANGED <<remoteEvents, remoteNextId, statusSlot, finishOrder>>
    /\ UNCHANGED <<procVars, fetchVars, syncVars, dateVars, callVars>>

ServerNext ==
    \E t \in Tasks :
        \/ Trigger(t)
        \/ FileOpen(t)
        \/ FileWrite(t)
        \/ Fetched(t)
        \/ Listed(t)
        \/ WriteDone(t)
        \/ DelayDone(t)

SpecServer == ServerInit /\ [][ServerNext]_vars

\* a step of a run that has been triggered: the answer of a network call, of
\* the file system or of a timer, which the event loop delivers
TaskStep(t) ==
    \/ FileOpen(t)
    \/ FileWrite(t)
    \/ Fetched(t)
    \/ Listed(t)
    \/ WriteDone(t)
    \/ DelayDone(t)

\* one trigger and the run it starts, where every pending answer is delivered
\* in the end: fetch has its timeout of 30 s (verdao.js:52-53), the calendar
\* client and the file system answer or fail, the timer fires after 100 ms
OneRunNext == Trigger(1) \/ TaskStep(1)

SpecServerFair == ServerInit /\ [][OneRunNext]_vars /\ WF_vars(TaskStep(1))

(***************************************************************************)
(* Claims about overlapping runs and the status file, under SpecServer      *)
(***************************************************************************)
\* the tasks whose events.insert or events.update has not answered yet
writesInFlight == { t \in Tasks : tasks[t].pc = "write" }

\* the run that finished last, when no run is in flight
lastFinished == finishOrder[Len(finishOrder)]

allRunsFinished ==
    /\ finishOrder # <<>>
    /\ \A t \in Tasks : ~ inFlight(tasks[t])

C20_AsStated ==
    /\ \A t \in Tasks : \A k \in 1..(Len(tasks[t].matches) - 1) :
          tasks[t].matches[k].date <= tasks[t].matches[k + 1].date
    /\ Cardinality(writesInFlight) <= 1

(***************************************************************************)
(* Claims about processMatches applied to its own output, under SpecProc    *)
(***************************************************************************)
\* C21: with the same now, processMatches gives the same ordered output for
\* the same input each time, and processMatches applied to its own output
\* returns that output unchanged.
C21_StableAndIdempotent ==
    /\ procPc = "processed" => processed = processMatches(rawMatches, procNow)
    /\ procPc = "reprocessed" =>
          /\ processed = processMatches(rawMatches, procNow)
          /\ processMatches(processed, procNow) = processed

\* the second call has returned a list of two fixtures that share a date,
\* taken from a raw list of three matches, one of which was dropped
C21_Witness ==
    /\ procPc = "reprocessed"
    /\ Len(rawMatches) = 3
    /\ Len(processed) = 2
    /\ processed[1].date = processed[2].date
    /\ processed[1] # processed[2]

(***************************************************************************)
(* Claims about the life of the status record, under SpecServerFair         *)
(***************************************************************************)
\* the slot reads as the record 'running' that the handler of task t saved
showsRunning(t) == getLatestRunStatus(statusSlot) = runningStatus(t)

\* the run of task t has returned or thrown
ended(t) == tasks[t].pc = "done"

InventoryMatch(opponent, date) ==
    [date |-> date, opponent |-> opponent, location |-> <<>>,
     broadcast |-> <<>>, competition |-> Paulista, isHome |-> FALSE,
     source |-> "/paulista-2026/"]

\* the events a calendar may hold: one of another owner, two owned events of
\* one fixture, an owned event of a second fixture and an event with the sync
\* marker and no fixtureId
InventoryEvents ==
    { ForeignEvent,
      [id |-> 2, resource |-> matchToCalendarEvent(InventoryMatch(Santos, 1))],
      [id |-> 3, resource |-> matchToCalendarEvent(InventoryMatch(Santos, 2))],
      [id |-> 4, resource |-> matchToCalendarEvent(InventoryMatch(SaoPaulo, 1))],
      [id |-> 5, resource |->
          [matchToCalendarEvent(InventoryMatch(SaoPaulo, 2))
           EXCEPT !.extendedProperties.private.fixtureId = <<>>]] }

\* the calendar, now, and the number of events of other owners that start
\* after now and before every event of the calendar
InventoryInputs ==
    [calendar : SUBSET InventoryEvents, timeMin : {0, 3},
     earlier : {0, maxResults - 1, maxResults}]

InventoryInit ==
    /\ callPc = "input"
    /\ callIn \in InventoryInputs
    /\ callOut = <<>>
    /\ ProcOff
    /\ FetchOff
    /\ SyncOff
    /\ DateOff
    /\ ServerOff

\* calendar.js:150-175  events.list answers and the fixtureMap is returned
ListExisting ==
    /\ callPc = "input"
    /\ \E items \in listOrders(eventsFrom(callIn.calendar, callIn.timeMin)) :
          callOut' = getExistingEvents(firstPage(items, callIn.earlier))
    /\ callPc' = "listed"
    /\ UNCHANGED callIn
    /\ UNCHANGED <<procVars, fetchVars, syncVars, dateVars, serverVars>>

InventoryNext == ListExisting

SpecInventory == InventoryInit /\ [][InventoryNext]_vars

\* the events of the calendar that carry the sync marker 'true' and a
\* fixture key and start in the window
ownedInWindow ==
    { e \in callIn.calendar :
        /\ markerOf(e) = "true"
        /\ fixtureIdOf(e.resource) # <<>>
        /\ e.resource.start >= callIn.timeMin }

\* C23 as stated: the mapping getExistingEvents builds has an entry for every
\* remote event that carries the sync marker 'true' and a fixture key and
\* starts in the time window, no entry for an event lacking the sync marker,
\* and each entry maps a key to the id of an event that carries that key.
C23_AsStated ==
    callPc = "listed" =>
        /\ \A e \in ownedInWindow : mapIndex(callOut, fixtureIdOf(e.resource)) # 0
        /\ \A i \in 1..Len(callOut) :
              \E e \in callIn.calendar :
                  /\ e.id = callOut[i].value
                  /\ markerOf(e) = "true"
                  /\ fixtureIdOf(e.resource) = callOut[i].key

(***************************************************************************)
(* SpecBroadcast: parseBroadcast applied to the texts of a tv cell          *)
(***************************************************************************)
\* most parts a tv text is made of
MaxTokens == 2

\* a code of the table, a code with a blank before it, a name of the table, a
\* channel the table does not know, one with a number in its name, and a code
\* the table does not know
BroadcastTokens ==
    { <<"1">>, <<" ","3">>, <<"G","l","o","b","o">>, <<"E","S","P","N">>, <<"E","S","P","N"," ","2">>, <<"7">> }

TvSeparators == { <<",">>, <<"|">>, <<","," ">> }

\* the tv texts: nothing, a blank, and up to MaxTokens parts with a separator
TvTexts ==
    { <<>>, <<" ">> }
    \cup UNION { { join(tokens, separator) : separator \in TvSeparators } :
                 tokens \in SeqsUpTo(BroadcastTokens, MaxTokens) \ { <<>> } }

BroadcastInit ==
    /\ callPc = "input"
    /\ callIn \in TvTexts
    /\ callOut = <<>>
    /\ ProcOff
    /\ FetchOff
    /\ SyncOff
    /\ DateOff
    /\ ServerOff

\* verdao.js:255  parseBroadcast(tv)
ParseBroadcast ==
    /\ callPc = "input"
    /\ callOut' = parseBroadcast(callIn)
    /\ callPc' = "broadcast"
    /\ UNCHANGED callIn
    /\ UNCHANGED <<procVars, fetchVars, syncVars, dateVars, serverVars>>

BroadcastNext == ParseBroadcast

SpecBroadcast == BroadcastInit /\ [][BroadcastNext]_vars

\* the entry the statement gives a token: the channel name of the token found
\* in the table (as a code or as a name), any other token as it is
statedChannel(part) ==
    IF channelOfKey(part) # <<>> THEN channelOfKey(part) ELSE part

\* C25 as stated: parseBroadcast splits the text on commas and pipes, replaces
\* each token found in the channel table by its channel name, passes every
\* other token through verbatim and joins the results with ", " in the
\* original order: the output has one entry per token of the input.
C25_AsStated ==
    callPc = "broadcast" /\ trim(callIn) # <<>> =>
        LET parts == broadcastParts(callIn)
        IN  callOut = join([i \in 1..Len(parts) |-> statedChannel(parts[i])],
                           <<",", " ">>)

(***************************************************************************)
(* SpecParse: parseMatchesFromHTML applied to pages of the schedule         *)
(***************************************************************************)
\* most rows of a table
MaxRows == 2

KickOff == <<"1","0","/","1"," ","-"," ","1","5","h","0","0">>

\* the rows of a table, as the texts of their td cells: the stadium in the
\* third cell, the stadium in the fourth cell and the third empty, an away
\* match, a date to be defined, a date without its dash, the header written
\* with td cells, a row of two cells
TableRows ==
    { <<KickOff, Santos, <<"A","l","l","i","a","n","z"," ","P","a","r","q","u","e">>, Globo>>,
      <<KickOff, Santos, <<>>, <<"A","L","L","I","A","N","Z"," ","P","A","R","Q","U","E">>>>,
      <<KickOff, Santos, <<"V","i","l","a"," ","B","e","l","m","i","r","o">>, Globo>>,
      <<ToBeDefined, Santos, <<"V","i","l","a"," ","B","e","l","m","i","r","o">>, <<>>>>,
      <<<<"1","0","/","1"," ","1","5","h","0","0">>, SaoPaulo, <<"A","r","e","n","a"," ","B","a","r","u","e","r","i">>, <<>>>>,
      <<<<"D","a","t","a">>, <<"A","d","v","e","r","s","~a","r","i","o">>, <<"L","o","c","a","l">>, <<"T","V">>>>,
      <<KickOff, Santos>> }

\* the rows of the section of the home page, as text and alt: the stadium in
\* brackets, no stadium, the stadium outside brackets, a dash for the bar,
\* the badge of Palmeiras last
SectionRows ==
    { [text |-> <<"1","0","/","1"," ","|"," ","1","5","h","0","0"," ","[","A","l","l","i","a","n","z"," ","P","a","r","q","u","e","]"," ","G","l","o","b","o">>, alt |-> Santos],
      [text |-> <<"1","0","/","1"," ","|"," ","1","5","h","0","0"," ","G","l","o","b","o">>, alt |-> Santos],
      [text |-> <<"1","0","/","1"," ","|"," ","1","5","h","0","0"," ","A","r","e","n","a"," ","B","a","r","u","e","r","i">>, alt |-> Santos],
      [text |-> <<"1","0","/","1"," ","-"," ","1","5","h","0","0"," ","[","A","l","l","i","a","n","z"," ","P","a","r","q","u","e","]">>, alt |-> Santos],
      [text |-> <<"1","0","/","1"," ","|"," ","1","5","h","0","0"," ","[","M","o","r","u","m","b","i","]">>, alt |-> Palmeiras] }

\* verdao.js:240  the row with what parseDateTime(dateTimeStr, competition)
\* returns at now
datedRow(cells, competition, now) ==
    [cells |-> cells,
     date  |-> parseDateTime(trim(cells[1]), competition, now)]

\* verdao.js:272-276  the row of the section with what parseDateTime returns
\* for the text put together from the groups of the match
datedSectionRow(row, competition, now) ==
    LET dateMatch == sectionDateMatch(row.text)
    IN  [text |-> row.text,
         alt  |-> row.alt,
         date |-> IF ~ dateMatch.matched THEN NullDate
                  ELSE parseDateTime(
                          dateMatch.day \o <<"/">> \o dateMatch.month
                              \o <<" ", "~-", " ">> \o dateMatch.hour
                              \o <<"h">> \o dateMatch.minute,
                          competition, now)]

\* the header of a table that is no schedule
SquadHead == <<"E","l","e","n","c","o">>

ParsePages ==
    { [url |-> pageUrl(c), competition |-> c] : c \in Competitions }

\* the instant of the call: 2025-12-28T12:00Z
ParseNow == DateUTC(2025, 11, 28, 12, 0)

PageInputs ==
    UNION {
      { [html |-> [malformed |-> FALSE,
                   tables |-> <<[head |-> head, rows |-> rows]>>,
                   section |-> section],
         competition |-> page.competition,
         url |-> page.url] :
        head \in {ScheduleHead, SquadHead},
        rows \in SeqsUpTo({ datedRow(cells, page.competition, ParseNow) :
                              cells \in TableRows }, MaxRows),
        section \in SeqsUpTo({ datedSectionRow(row, page.competition, ParseNow) :
                                 row \in SectionRows }, 1) } :
      page \in ParsePages }

ParseInit ==
    /\ DateOff
    /\ callPc = "input"
    /\ callIn \in PageInputs
    /\ callOut = <<>>
    /\ ProcOff
    /\ FetchOff
    /\ SyncOff
    /\ ServerOff

\* verdao.js:339  parseMatchesFromHTML(html, page.competition, page.url)
ParsePage ==
    /\ callPc = "input"
    /\ callOut' = parseMatchesFromHTML(callIn.html, callIn.competition, callIn.url)
    /\ callPc' = "parsed"
    /\ UNCHANGED callIn
    /\ UNCHANGED <<procVars, fetchVars, syncVars, dateVars, serverVars>>

ParseNext == ParsePage

SpecParse == ParseInit /\ [][ParseNext]_vars

(***************************************************************************)
(* Claims about the rows of a page, under SpecParse                         *)
(***************************************************************************)
\* the text holds 'barueri' or 'allianz', whatever the case of its letters
holdsVenueKeyword(text) ==
    \/ includes(toLowerCase(text), <<"b","a","r","u","e","r","i">>)
    \/ includes(toLowerCase(text), <<"a","l","l","i","a","n","z">>)

\* the location text and the auxiliary text of every row of the page, in the
\* order the rows are read: third and fourth cell of a table row; the text in
\* brackets and the whole text of a row of the section of the home page
rowTexts ==
    concat([t \in 1..Len(callIn.html.tables) |->
              [k \in 1..Len(callIn.html.tables[t].rows) |->
                  [location  |-> cellText(callIn.html.tables[t].rows[k], 3),
                   auxiliary |-> cellText(callIn.html.tables[t].rows[k], 4)]]])
    \o (IF isHomePage(callIn.url)
        THEN [k \in 1..Len(callIn.html.section) |->
                 [location  |-> bracketed(callIn.html.section[k].text),
                  auxiliary |-> callIn.html.section[k].text]]
        ELSE <<>>)

\* every row of the page gave a match: the k-th match is the one of row k
everyRowGaveAMatch == callPc = "parsed" /\ Len(callOut) = Len(rowTexts)

\* C24 as stated: isHome is true if and only if the location text or the
\* auxiliary text contains 'barueri' or 'allianz' (case-insensitively), and
\* with an empty or unknown location isHome is false.
C24_AsStated ==
    everyRowGaveAMatch =>
        \A k \in 1..Len(callOut) :
            /\ callOut[k].isHome <=>
                   \/ holdsVenueKeyword(rowTexts[k].location)
                   \/ holdsVenueKeyword(rowTexts[k].auxiliary)
            /\ ~ holdsVenueKeyword(rowTexts[k].location) => ~ callOut[k].isHome

\* C24: for every match of parseMatchesFromHTML, from a table row or from the
\* section of the home page, isHome is true if and only if the location text
\* or the auxiliary text contains 'barueri' or 'allianz' (case-insensitively);
\* isHome is false when neither text does, and true for an empty or unknown
\* location whose auxiliary text names the stadium.
C24_HomeInference ==
    everyRowGaveAMatch =>
        \A k \in 1..Len(callOut) :
            callOut[k].isHome <=>
                \/ holdsVenueKeyword(rowTexts[k].location)
                \/ holdsVenueKeyword(rowTexts[k].auxiliary)

\* the home page with a table of two rows and a row in its section: an away
\* match, a home match with the stadium written in capitals in the fourth
\* cell, a home match with the stadium in brackets
C24_Witness ==
    /\ everyRowGaveAMatch
    /\ Len(callOut) = 3
    /\ isHomePage(callIn.url)
    /\ Len(callIn.html.section) = 1
    /\ ~ callOut[1].isHome
    /\ callOut[1].location # <<>>
    /\ callOut[2].isHome
    /\ callOut[2].location = <<>>
    /\ callOut[3].isHome
    /\ callOut[3].location = <<"A","l","l","i","a","n","z"," ","P","a","r","q","u","e">>

(***************************************************************************)
(* Claims about the payload and the next inventory, under Spec              *)
(***************************************************************************)
\* write k of this run answered and left in the calendar an event with the
\* sync marker 'true' and the Unique Key of its match as fixtureId
wroteMarkedEvent(k) ==
    \E e \in calendar :
        /\ e.id = ops[k].eventId
        /\ markerOf(e) = "true"
        /\ fixtureIdOf(e.resource) = getMatchUniqueKey(ops[k].match)

\* this run has listed the calendar and built its fixtureMap
inventoryTaken == runs >= 2 /\ pc \in {"reconcile", "finish"}

\* the fixtureMap of this run holds the event that write j of the run before
\* created, under the Unique Key of the match of that write
foundByNextRun(j) ==
    mapGet(existingEvents, getMatchUniqueKey(prevOps[j].match)) = prevOps[j].eventId

createdBefore(j) == prevOps[j].ok /\ prevOps[j].kind = "insert"

dateTokenIn(row) == dateTimeMatch(cellText(row, 1)).matched

\* the rows of the schedule tables of the page that hold three cells or more,
\* are no header and hold the token, as <<table, row>>
rowsWithDate ==
    { p \in { <<t, k>> : t \in 1..Len(callIn.html.tables), k \in 1..MaxRows } :
        /\ isScheduleTable(callIn.html.tables[p[1]])
        /\ p[2] <= Len(callIn.html.tables[p[1]].rows)
        /\ LET row == callIn.html.tables[p[1]].rows[p[2]]
           IN  /\ Len(row.cells) >= 3
               /\ ~ skipsRow(cellText(row, 1), cellText(row, 2))
               /\ dateTokenIn(row) }

\* the rows of the section of the home page that hold the token written with
\* a bar and the badge of an opponent
sectionRowsWithDate ==
    { k \in 1..Len(callIn.html.section) :
        /\ isHomePage(callIn.url)
        /\ sectionDateMatch(callIn.html.section[k].text).matched
        /\ trim(callIn.html.section[k].alt) # <<>>
        /\ callIn.html.section[k].alt # Palmeiras }

\* C27: unparsable rows are dropped, never raised: parseDateTime returns null
\* for a text that does not hold the token day/month - hour'h'minute,
\* parseMatchesFromHTML emits no match for such a row and still emits one for
\* every other row of the page, before it or after it, and every match it
\* emits has a date that is not null.
C27_UnparsableDropped ==
    callPc = "parsed" =>
        /\ \A k \in 1..Len(callOut) :
              callOut[k].date # NullDate /\ callOut[k].date \in Nat
        /\ \A t \in 1..Len(callIn.html.tables) :
              \A k \in 1..Len(callIn.html.tables[t].rows) :
                  LET row == callIn.html.tables[t].rows[k]
                  IN  ~ dateTokenIn(row) =>
                          /\ parseDateTime(cellText(row, 1), callIn.competition,
                                           ParseNow) = NullDate
                          /\ row.date = NullDate
                          /\ matchesOfRow(row, callIn.competition, callIn.url) = <<>>
        /\ \A k \in 1..Len(callIn.html.section) :
              ~ sectionDateMatch(callIn.html.section[k].text).matched =>
                  matchesOfSectionRow(callIn.html.section[k], callIn.competition,
                                      callIn.url) = <<>>
        /\ Len(callOut) = Cardinality(rowsWithDate) + Cardinality(sectionRowsWithDate)

\* a schedule table whose first row holds a date without its dash and whose
\* second row is a match: one match, the one of the second row
C27_Witness ==
    /\ callPc = "parsed"
    /\ Len(callIn.html.tables[1].rows) = 2
    /\ isScheduleTable(callIn.html.tables[1])
    /\ callIn.html.tables[1].rows[1].cells[2] = SaoPaulo
    /\ ~ dateTokenIn(callIn.html.tables[1].rows[1])
    /\ callIn.html.tables[1].rows[1].date = NullDate
    /\ dateTokenIn(callIn.html.tables[1].rows[2])
    /\ callIn.html.section = <<>>
    /\ Len(callOut) = 1
    /\ callOut[1].opponent = Santos
    /\ callOut[1].date # NullDate

(***************************************************************************)
(* SpecUniqueKey: getMatchUniqueKey applied to two matches whose texts are  *)
(* written in several ways                                                  *)
(***************************************************************************)
\* the opponent as the pages may write it: other case, white space around it,
\* a tab before it, two spaces inside, punctuation, an underscore
OpponentTexts ==
    { Santos, SantosUpper,
      <<" ","S","a","n","t","o","s"," "," ">>,
      <<"\t","S","A","N","T","O","S">>,
      SaoPaulo,
      <<"S","~A","O"," "," ","P","A","U","L","O">>,
      <<"S",".","E","."," ","S","a","n","t","o","s","-","2">>,
      <<"s","a","o","_","p","a","u","l","o">> }

CompetitionTexts ==
    { Paulista, ProximosJogos,
      <<" ","p","a","u","l","i","s","t","a"," ","2","0","2","6">> }

UniqueKeyInit ==
    /\ callPc = "input"
    /\ callIn \in [1..2 -> [opponent : OpponentTexts, competition : CompetitionTexts]]
    /\ callOut = <<>>
    /\ ProcOff
    /\ FetchOff
    /\ SyncOff
    /\ DateOff
    /\ ServerOff

\* part_007:16-24  getMatchUniqueKey(match) for each of the two matches
GetMatchUniqueKey ==
    /\ callPc = "input"
    /\ callOut' = [i \in 1..Len(callIn) |-> getMatchUniqueKey(callIn[i])]
    /\ callPc' = "keyed"
    /\ UNCHANGED callIn
    /\ UNCHANGED <<procVars, fetchVars, syncVars, dateVars, serverVars>>

UniqueKeyNext == GetMatchUniqueKey

SpecUniqueKey == UniqueKeyInit /\ [][UniqueKeyNext]_vars

\* N of the statement, read off the positions of the lowercased text: between
\* the first and the last character that is no white space, a lowercase ASCII
\* letter, a digit or an underscore stays, the first character of a run of
\* white space becomes one underscore, everything else goes
statedN(str) ==
    LET s     == toLowerCase(str)
        inner == { i \in 1..Len(s) : s[i] \notin WhiteSpace }
        keeps(i) ==
            /\ \E a \in inner : a <= i
            /\ \E b \in inner : i <= b
            /\ \/ s[i] \in AsciiLower \cup Digits \cup {"_"}
               \/ s[i] \in WhiteSpace /\ s[i - 1] \notin WhiteSpace
        kept  == SelectSeq([i \in 1..Len(s) |-> <<i, s[i]>>],
                           LAMBDA p : keeps(p[1]))
    IN  [k \in 1..Len(kept) |->
            IF kept[k][2] \in WhiteSpace THEN "_" ELSE kept[k][2]]

\* the two texts differ in nothing but the case of letters and the white
\* space around them
sameButCaseAndMargins(a, b) == toLowerCase(trim(a)) = toLowerCase(trim(b))

\* C28: getMatchUniqueKey returns 'palmeiras_vs_' + N(opponent) + '_' +
\* N(competition), where N lowercases, trims, replaces each run of white space
\* by one underscore and removes every character that is no lowercase ASCII
\* letter, digit or underscore; two inputs that differ only in letter case or
\* in surrounding white space get the same key.
C28_UniqueKeyFormat ==
    callPc = "keyed" =>
        /\ \A i \in 1..Len(callIn) :
              callOut[i] = <<"p","a","l","m","e","i","r","a","s","_","v","s","_">>
                           \o statedN(callIn[i].opponent) \o <<"_">>
                           \o statedN(callIn[i].competition)
        /\ /\ sameButCaseAndMargins(callIn[1].opponent, callIn[2].opponent)
           /\ sameButCaseAndMargins(callIn[1].competition, callIn[2].competition)
           => callOut[1] = callOut[2]

\* ' Santos  ' of 'Paulista 2026' and tab 'SANTOS' of ' paulista 2026': two
\* writings, one key
C28_Witness ==
    /\ callPc = "keyed"
    /\ callIn[1].opponent = <<" ","S","a","n","t","o","s"," "," ">>
    /\ callIn[2].opponent = <<"\t","S","A","N","T","O","S">>
    /\ callIn[1].competition = Paulista
    /\ callIn[2].competition = <<" ","p","a","u","l","i","s","t","a"," ","2","0","2","6">>
    /\ callOut[1] = callOut[2]
    /\ callOut[1] = <<"p","a","l","m","e","i","r","a","s","_","v","s","_",
                      "s","a","n","t","o","s","_",
                      "p","a","u","l","i","s","t","a","_","2","0","2","6">>

(***************************************************************************)
(* SpecRunFair: one triggered run of sync() whose calls all answer          *)
(***************************************************************************)
\* the trigger of the one run
FirstRun == runs = 0 /\ StartRun

\* a step of the run in progress: a call of the run answers, one way or the
\* other, and the run goes on to its next call
RunStep ==
    \/ FetchRequest
    \/ Process
    \/ GetCalendarClient
    \/ GetExistingEvents
    \/ ReconcileMatch
    \/ FinishSync
    \/ SaveRunStatus

OneSyncNext == FirstRun \/ RunStep

\* where the run stands: its step, its page, its attempt and its match
position == <<pc, pageIdx, attempt, matchIdx>>

\* the call the run in progress awaits returns or fails and the run moves on:
\* its position changes, which under OneSyncNext is a step of RunStep, enabled
\* whenever a run is in progress
CallAnswers ==
    /\ pc # "idle"
    /\ \E step \in {"idle", "fetch", "process", "client", "list", "reconcile",
                     "finish", "save"},
          page \in 1..(Len(VerdaoPages) + 1),
          i \in 0..DefaultRetries,
          k \in 1..(Len(processedMatches) + 1) :
          /\ pc' = step
          /\ pageIdx' = page
          /\ attempt' = i
          /\ matchIdx' = k

\* every call the run awaits returns or fails in the end
SpecRunFair == Init /\ [][OneSyncNext]_vars /\ WF_position(CallAnswers)

\* sync() has returned its result or thrown its error
runEnded == pc = "idle" /\ outcome \in {"returned", "threw"}

\* C29: every triggered run terminates: provided each network call eventually
\* returns or fails, a run ends by returning a result or by throwing, after
\* at most retries requests per source and one write attempt per processed
\* match; no step loops without bound.
C29_RunTerminates ==
    /\ [](pc = "fetch" => attempt < DefaultRetries /\ pageIdx <= Len(VerdaoPages))
    /\ [](Len(requested) <= Len(VerdaoPages))
    /\ [](/\ Len(ops) <= Len(processedMatches)
          /\ \A k \in 1..Len(ops) : ops[k].match = processedMatches[k])
    /\ (runs = 1) ~> runEnded

\* the run has ended after the third request for the first page failed, one
\* request for the second page and one write
C29_Witness ==
    /\ runEnded
    /\ runs = 1
    /\ pageOutcome = <<"threw", "html">>
    /\ Len(ops) = 1
    /\ Len(processedMatches) = 1
    /\ outcome = "returned"

(***************************************************************************)
(* Claims about one fixture on two pages, under Spec                        *)
(***************************************************************************)
\* the matches of the list that are the fixture of match: same opponent, same
\* instant
sameFixture(matches, match) ==
    { k \in 1..Len(matches) : /\ matches[k].opponent = match.opponent
                              /\ matches[k].date = match.date }

\* the run scraped the fixture of allMatches[i] from a page of a competition
\* and from the home page
scrapedFromBoth(i) ==
    \E j \in sameFixture(allMatches, allMatches[i]) :
        /\ ~ isHomePage(allMatches[i].source)
        /\ isHomePage(allMatches[j].source)

\* C30 as stated: when the same fixture (same opponent, same instant) is
\* scraped in one run both from a competition page and from the home page,
\* the output of processMatches contains it once and the run writes one
\* calendar event for it.
C30_AsStated ==
    runs >= 1 /\ pc = "idle" /\ outcome = "returned" =>
        \A i \in 1..Len(allMatches) :
            scrapedFromBoth(i) =>
                /\ Cardinality(sameFixture(processedMatches, allMatches[i])) <= 1
                /\ Cardinality({ k \in 1..Len(ops) :
                                   /\ ops[k].ok
                                   /\ ops[k].kind = "insert"
                                   /\ ops[k].match.opponent = allMatches[i].opponent
                                   /\ ops[k].match.date = allMatches[i].date }) <= 1

(***************************************************************************)
(* Claims about the triggers and the owned events, under SpecServer         *)
(***************************************************************************)
\* the runs of the orchestrator that have been started and have not returned
\* or thrown
runsInProgress == { t \in Tasks : inFlight(tasks[t]) }

\* C31 as stated: the trigger surface (POST /api/sync and the cron tick) never
\* starts a second run while an earlier run is still in flight, so at most one
\* run is in progress at any time.
C31_AsStated == Cardinality(runsInProgress) <= 1

\* the events of the calendar that carry the sync marker and the fixtureId key
ownedUnder(key) ==
    { e \in remoteEvents : markerOf(e) = "true" /\ fixtureIdOf(e.resource) = key }

\* C32 as stated: after any sequence of sync runs, including runs that overlap
\* in time, the remote calendar holds at most one event carrying the sync
\* marker for each Unique Key.
C32_AsStated ==
    \A e \in remoteEvents :
        Cardinality(ownedUnder(fixtureIdOf(e.resource))) <= 1

(***************************************************************************)
(* Claims about the counts and the writes of one run, under Spec            *)
(***************************************************************************)
\* calendar.js:238  total: matches.length
total == Len(processedMatches)

\* the places in the list of the matches whose write failed, in list order
failedPlaces ==
    SelectSeq([k \in 1..Len(ops) |-> k], LAMBDA k : ~ ops[k].ok)

\* C33: whenever syncMatchesToCalendar returns, created + updated + skipped
\* equals the number of matches it was given (total), and the errors list has
\* exactly skipped entries, one per failed write and in list order.
C33_CountConservation ==
    pc = "finish" =>
        /\ counts.created + counts.updated + counts.skipped = total
        /\ Len(counts.errors) = counts.skipped
        /\ Len(failedPlaces) = counts.skipped
        /\ \A k \in 1..Len(counts.errors) :
              /\ counts.errors[k].fixture
                     = eventSummary(processedMatches[failedPlaces[k]])
              /\ counts.errors[k].error = WriteError

\* the second run returns from syncMatchesToCalendar after the update of its
\* first match failed and the insert of its second match answered
C33_Witness ==
    /\ pc = "finish"
    /\ runs = 2
    /\ total = 2
    /\ ops[1].kind = "update"
    /\ ~ ops[1].ok
    /\ ops[2].kind = "insert"
    /\ ops[2].ok
    /\ counts.created = 1
    /\ counts.updated = 0
    /\ counts.skipped = 1
    /\ Len(counts.errors) = 1

(***************************************************************************)
(* SpecLegs: processMatches and the payloads of the writes for two matches  *)
(* of one competition                                                       *)
(***************************************************************************)
VilaBelmiro == <<"V","i","l","a"," ","B","e","l","m","i","r","o">>

\* a match of the competition as its page yields it: at home in the stadium
\* of Palmeiras or away in the stadium of the opponent
LegMatches ==
    { [date |-> d, opponent |-> o,
       location |-> IF h THEN Allianz ELSE VilaBelmiro,
       broadcast |-> <<>>, competition |-> Paulista, isHome |-> h,
       source |-> pageUrl(Paulista)] :
      d \in 1..(MaxDate + 1), o \in {Santos, SaoPaulo}, h \in BOOLEAN }

LegsInit ==
    /\ callPc = "input"
    /\ callIn \in [matches : [1..2 -> LegMatches], now : {0, 1}]
    /\ callOut = <<>>
    /\ ProcOff
    /\ FetchOff
    /\ SyncOff
    /\ DateOff
    /\ ServerOff

\* config.js:553, calendar.js:198-199  processMatches(allMatches), then the
\* payload matchToCalendarEvent builds for each match of the loop of writes
ProcessLegs ==
    /\ callPc = "input"
    /\ callOut' =
          LET matches == processMatches(callIn.matches, callIn.now)
          IN  [matches |-> matches,
               events  |-> [k \in 1..Len(matches) |->
                               matchToCalendarEvent(matches[k])]]
    /\ callPc' = "processed"
    /\ UNCHANGED callIn
    /\ UNCHANGED <<procVars, fetchVars, syncVars, dateVars, serverVars>>

LegsNext == ProcessLegs

SpecLegs == LegsInit /\ [][LegsNext]_vars

\* the two matches of the input are the two legs of one tie: same opponent,
\* same competition, one at home and one away, on different dates, both to come
twoLegs ==
    /\ callIn.matches[1].opponent = callIn.matches[2].opponent
    /\ callIn.matches[1].competition = callIn.matches[2].competition
    /\ callIn.matches[1].isHome # callIn.matches[2].isHome
    /\ callIn.matches[1].date # callIn.matches[2].date
    /\ callIn.matches[1].date > callIn.now
    /\ callIn.matches[2].date > callIn.now

\* C34 as stated: when the input of processMatches holds two future matches
\* against the same opponent in the same competition on different dates that
\* are two distinct fixtures (a home leg and an away leg), both are in the
\* output and each gets its own calendar event.
C34_AsStated ==
    callPc = "processed" /\ twoLegs =>
        \A i \in 1..2 :
            /\ \E k \in 1..Len(callOut.matches) :
                  callOut.matches[k] = callIn.matches[i]
            /\ \E k \in 1..Len(callOut.events) :
                  /\ callOut.events[k].start = callIn.matches[i].date
                  /\ callOut.events[k].location = callIn.matches[i].location

\* C35: the matches in the output of processMatches have pairwise distinct
\* Unique Keys, so the payloads of the writes of one reconciliation run, one
\* per match of the list, carry pairwise distinct fixture ids: at most one
\* remote write per Unique Key.
C35_DistinctKeys ==
    callPc = "processed" =>
        /\ \A i, j \in 1..Len(callOut.matches) :
              i # j => getMatchUniqueKey(callOut.matches[i])
                           # getMatchUniqueKey(callOut.matches[j])
        /\ Len(callOut.events) = Len(callOut.matches)
        /\ \A i, j \in 1..Len(callOut.events) :
              i # j => fixtureIdOf(callOut.events[i]) # fixtureIdOf(callOut.events[j])

\* two matches against Santos in the input, one key and one payload in the
\* output; and two opponents, two keys
C35_Witness ==
    /\ callPc = "processed"
    /\ callIn.matches[1].opponent = Santos
    /\ callIn.matches[2].opponent = Santos
    /\ callIn.matches[1].date = 3
    /\ callIn.matches[2].date = 2
    /\ callIn.now = 1
    /\ Len(callOut.matches) = 1
    /\ Len(callOut.events) = 1
    /\ callOut.events[1].start = 2

(***************************************************************************)
(* Claims about what a run leaves alone, under Spec                         *)
(***************************************************************************)
\* the ids the fixtureMap of this run holds for the Unique Keys of the matches
\* of its list
idsOfTheList ==
    { mapGet(existingEvents, getMatchUniqueKey(processedMatches[k])) :
        k \in 1..Len(processedMatches) } \ {0}

\* C36: a run of syncMatchesToCalendar issues only list, insert and update
\* calls, never a delete, and the only existing remote events it modifies are
\* those whose id the inventory maps from the Unique Key of a match of the
\* list; events without the sync marker and owned events whose fixture is not
\* in the list are left unchanged.
C36_TouchesOnlyTheList ==
    /\ \A k \in 1..Len(calls) :
          calls[k] \in {"getCalendarClient", "events.list", "events.insert",
                        "events.update"}
    /\ \A e \in calAtStart :
          /\ \E f \in calendar : f.id = e.id
          /\ e \notin calendar => e.id \in idsOfTheList
          /\ markerOf(e) # "true" => e \in calendar
          /\ (\A k \in 1..Len(processedMatches) :
                 fixtureIdOf(e.resource) # getMatchUniqueKey(processedMatches[k]))
             => e \in calendar
    /\ \A f \in calendar :
          (\A e \in calAtStart : e.id # f.id) =>
              \E k \in 1..Len(ops) :
                  ops[k].ok /\ ops[k].kind = "insert" /\ ops[k].eventId = f.id

\* the second run has moved the event of the one match of its list and left
\* the event of the other fixture and the event of the other owner as they were
C36_Witness ==
    /\ runs = 2
    /\ pc = "finish"
    /\ Len(ops) = 1
    /\ ops[1].ok
    /\ ops[1].kind = "update"
    /\ ops[1].eventId = 2
    /\ Cardinality(calAtStart) = 3
    /\ Cardinality(calendar) = 3
    /\ \E e \in calAtStart : e.id = 2 /\ e \notin calendar
    /\ \E e \in calAtStart : e.id = 3 /\ e \in calendar /\ markerOf(e) = "true"
    /\ ForeignEvent \in calendar

(***************************************************************************)
(* Claims about a status file that cannot be written, under Spec            *)
(***************************************************************************)
\* the run has ended and its call of saveRunStatus did not write the file
endedUnsaved ==
    /\ runs >= 1
    /\ pc = "idle"
    /\ Len(saved) = 1
    /\ ~ saved[1].written

\* the error of the step of the pipeline that failed
pipelineError ==
    IF failedAt = "env" THEN MissingEnv
    ELSE IF failedAt = "credentials" THEN CredentialsError
    ELSE IF failedAt = "client" THEN ClientError
    ELSE ListError

\* C37: a storage failure does not change the outcome of a run: saveRunStatus
\* never throws, so when writing the status slot fails a successful run still
\* returns its success result, and a failed run still throws the error of
\* the pipeline, not the error of the storage.
C37_StorageFailureKeepsOutcome ==
    endedUnsaved =>
        /\ failedAt = "none" =>
              /\ outcome = "returned"
              /\ err = <<>>
              /\ result.status = "success"
              /\ saved[1].status = result
        /\ failedAt # "none" =>
              /\ outcome = "threw"
              /\ err = pipelineError
              /\ err # StorageError
              /\ result.status = "error"
              /\ result.error = pipelineError

\* a run whose two writes answered returns its result though the status file
\* could not be written and still holds no record
C37_Witness ==
    /\ endedUnsaved
    /\ runs = 1
    /\ failedAt = "none"
    /\ outcome = "returned"
    /\ result.status = "success"
    /\ result.fixturesCreated = 2
    /\ statusFile = NoRuns

(***************************************************************************)
(* Claims about reading the status file while it is written, under          *)
(* SpecServer                                                               *)
(***************************************************************************)
\* the records given to saveRunStatus so far: 'running' by the handler of a
\* POST, the final record by a run that has called its save
recordsGiven ==
    { runningStatus(t) : t \in { u \in Tasks : tasks[u].trigger = "post" } }
    \cup { tasks[t].result :
             t \in { u \in Tasks : tasks[u].pc \in {"saveOpen", "saveWrite", "done"} } }

\* C38 as stated: a call of getLatestRunStatus that overlaps a call of
\* saveRunStatus, or two overlapping calls of saveRunStatus from overlapping
\* runs, leaves and returns either the previously stored record or one of the
\* newly written records in full, never a mixture and never an 'error' record
\* that no run produced.
C38_AsStated ==
    /\ statusSlot.state # "mixed"
    /\ getLatestRunStatus(statusSlot) \in {NoRuns} \cup recordsGiven

=============================================================================
